---- MODULE Spec2Model ----
(***************************************************************************)
(* The request-admission layer of the application: the Redis rate-limit    *)
(* middleware (app/middlewares/rate_limit.py) in front of the downstream   *)
(* application, together with the counter store it talks to.               *)
(*                                                                         *)
(* Text the code parses (paths, header values, identifiers, keys, the      *)
(* decimal form of numbers) is a sequence of one-character strings, so     *)
(* that startswith, split, strip, concatenation and str() are computed.    *)
(* Text the code only passes along (header names, error codes) is a        *)
(* string.                                                                 *)
(***************************************************************************)
EXTENDS Integers, Sequences, FiniteSets, Bags, TLC

VARIABLES
    mw_redis,         \* self._redis of the middleware: "None" or "client"
    app_state_redis,  \* request.app.state.redis: "None" or "client"
    count,            \* the store: key -> integer value (0: the key does not exist)
    expiry,           \* the store: key -> seconds to live (-1: no expiry set)
    inflight,         \* the bag of dispatch() calls suspended at a store call
    inreq,            \* the request the last step took in (NoRequest: none)
    call,             \* the store call the last step made (NoCall: none)
    resp,             \* the response the last step returned (NoResp: none)
    probe,            \* a call of a function of the program: input and result
    tareas,           \* the rows of the table "tareas"
    clock,            \* datetime.now(timezone.utc)
    result            \* what the last call of the TaskRepository did (NoResult: none)

vars == <<mw_redis, app_state_redis, count, expiry, inflight, inreq, call, resp,
          probe, tareas, clock, result>>

\* the variables of the TaskRepository and its table
repository == <<tareas, clock, result>>

---------------------------------------------------------------------------
(* Bounds of the model *)

\* requests per window the middleware is configured with (rate_limit)
RateLimit == 2
\* seconds of one window (time_window)
TimeWindow == 2
\* the store's counter is followed up to RateLimit + OverLimit
OverLimit == 2
\* dispatch() calls that may be in flight at once
MaxInFlight == 2
\* the values int(time.time()) is drawn from: 0..MaxTime
MaxTime == 1
\* the values datetime.now() takes between calls of the repository: 0..MaxClock
MaxClock == 1

\* runs of the startup hook of one application that are followed
MaxStartups == 2

MaxCount == RateLimit + OverLimit

---------------------------------------------------------------------------
(* Python's str operations on sequences of characters *)

\* s.startswith(p)
StartsWith(s, p) ==
    /\ Len(p) <= Len(s)
    /\ SubSeq(s, 1, Len(p)) = p

\* the index of the first c in s, or 0
RECURSIVE FindFrom(_, _, _)
FindFrom(s, c, i) ==
    IF i > Len(s) THEN 0
    ELSE IF s[i] = c THEN i
    ELSE FindFrom(s, c, i + 1)

\* s.split(c)[0]
SplitFirst(s, c) ==
    LET i == FindFrom(s, c, 1)
    IN  IF i = 0 THEN s ELSE SubSeq(s, 1, i - 1)

\* s.split(c, 1)[1], for an s that holds c
SplitRest(s, c) ==
    LET i == FindFrom(s, c, 1)
    IN  SubSeq(s, i + 1, Len(s))

Whitespace == {" ", "\t", "\n", "\r"}

RECURSIVE LStrip(_)
LStrip(s) ==
    IF s # <<>> /\ Head(s) \in Whitespace THEN LStrip(Tail(s)) ELSE s

RECURSIVE RStrip(_)
RStrip(s) ==
    IF s # <<>> /\ s[Len(s)] \in Whitespace
    THEN RStrip(SubSeq(s, 1, Len(s) - 1))
    ELSE s

\* s.strip()
Strip(s) == RStrip(LStrip(s))

Digits == <<"0", "1", "2", "3", "4", "5", "6", "7", "8", "9">>

RECURSIVE StrNat(_)
StrNat(n) ==
    IF n < 10 THEN <<Digits[n + 1]>>
    ELSE StrNat(n \div 10) \o <<Digits[(n % 10) + 1]>>

\* str(n) of an int
Str(n) == IF n < 0 THEN <<"-">> \o StrNat(0 - n) ELSE StrNat(n)

Max(a, b) == IF a >= b THEN a ELSE b

---------------------------------------------------------------------------
(* Configuration of the middleware, RedisRateLimitMiddleware.__init__ *)

key_prefix == <<"r", "l">>

default_exempt_paths ==
    << <<"/", "d", "o", "c", "s">>,
       <<"/", "o", "p", "e", "n", "a", "p", "i", ".", "j", "s", "o", "n">>,
       <<"/", "h", "e", "a", "l", "t", "h", "z">>,
       <<"/", "s", "t", "a", "t", "i", "c">> >>

\* create_app passes no exempt_paths: exempt_paths or [defaults]
exempt_paths == default_exempt_paths

rate_limit == RateLimit

time_window == TimeWindow

---------------------------------------------------------------------------
(* Requests and downstream responses the environment may produce.          *)
(* An absent Authorization header, and an unknown peer, is the empty text:  *)
(* the code tests each of them for truth only.  X-Forwarded-For is no value *)
(* when the header is absent, and else the value of the header in a         *)
(* sequence of one element, which may be the empty text.                   *)

Absent == <<>>

BearerT == <<"B", "e", "a", "r", "e", "r", " ", "t">>
BasicT == <<"B", "a", "s", "i", "c", " ", "t">>

PathTareas == <<"/", "t", "a", "r", "e", "a", "s">>
PathDoc == <<"/", "d", "o", "c">>
PathDocsX == <<"/", "d", "o", "c", "s", "/", "x">>
PathHealthz == <<"/", "h", "e", "a", "l", "t", "h", "z">>

XffAB == <<" ", "a", " ", ",", " ", "b">>
XffB == <<"b">>
PeerA == <<"a">>
PeerC == <<"c">>

\* A caller with a Bearer token, behind any forwarding header and peer, and
\* the caller behind address "a".
BearerHeaders ==
    { [auth |-> BearerT, xff |-> <<XffAB>>, peer |-> PeerC],
      [auth |-> BearerT, xff |-> <<XffB>>, peer |-> PeerA],
      [auth |-> BearerT, xff |-> Absent, peer |-> Absent] }

AddressHeaders ==
    { [auth |-> Absent, xff |-> <<XffAB>>, peer |-> PeerC],
      [auth |-> BasicT, xff |-> Absent, peer |-> PeerA] }

Requests ==
    { [path |-> PathTareas, auth |-> h.auth, xff |-> h.xff, peer |-> h.peer] :
        h \in BearerHeaders \cup AddressHeaders }
    \cup
    { [path |-> p, auth |-> Absent, xff |-> Absent, peer |-> PeerA] :
        p \in {PathDoc, PathDocsX, PathHealthz} }

NoRequest == [path |-> <<>>, auth |-> <<>>, xff |-> <<>>, peer |-> <<>>]

HLimit == "X-RateLimit-Limit"
HRemaining == "X-RateLimit-Remaining"
HReset == "X-RateLimit-Reset"

\* what call_next may return: the application's own response
DownstreamResponses ==
    { [status |-> 200, body |-> [items |-> "tareas"], headers |-> {}],
      [status |-> 201, body |-> [tarea_id |-> "t1"],
       headers |-> {<<HLimit, <<"7", "7">> >>}],
      [status |-> 404, body |-> [detail |-> "Tarea no encontrada"],
       headers |-> {<<HRemaining, <<"5">> >>, <<HReset, <<"9">> >>}] }

NoDownstream == [status |-> 0, body |-> [none |-> TRUE], headers |-> {}]

Times == 0..MaxTime

---------------------------------------------------------------------------
(* RedisRateLimitMiddleware: the helpers of dispatch *)

\* a lookup that takes a client to be there
_redis_assumed == "client"

\* self._redis if it is set, else request.app.state.redis
_redis_from_request ==
    IF mw_redis # "None" THEN mw_redis ELSE app_state_redis

_key(identifier) == key_prefix \o <<":">> \o identifier

BearerPrefix == <<"B", "e", "a", "r", "e", "r", " ">>

\* an identifier that looks at X-Forwarded-For before Authorization
_identifierForwardedFirst(request) ==
    IF request.xff # <<>> /\ request.xff[1] # <<>>
    THEN Strip(SplitFirst(request.xff[1], ","))
    ELSE IF StartsWith(request.auth, BearerPrefix)
    THEN <<"u", "s", "e", "r", ":">> \o SplitRest(request.auth, " ")
    ELSE IF request.peer # <<>>
    THEN request.peer
    ELSE <<"u", "n", "k", "n", "o", "w", "n">>

\* an identifier that takes the first entry of X-Forwarded-For as it is
_identifierUntrimmed(request) ==
    IF StartsWith(request.auth, BearerPrefix)
    THEN <<"u", "s", "e", "r", ":">> \o SplitRest(request.auth, " ")
    ELSE IF request.xff # <<>> /\ request.xff[1] # <<>>
    THEN SplitFirst(request.xff[1], ",")
    ELSE IF request.peer # <<>>
    THEN request.peer
    ELSE <<"u", "n", "k", "n", "o", "w", "n">>

_identifier(request) ==
    IF StartsWith(request.auth, BearerPrefix)
    THEN <<"u", "s", "e", "r", ":">> \o SplitRest(request.auth, " ")
    ELSE IF request.xff # <<>> /\ request.xff[1] # <<>>
    THEN Strip(SplitFirst(request.xff[1], ","))
    ELSE IF request.peer # <<>>
    THEN request.peer
    ELSE <<"u", "n", "k", "n", "o", "w", "n">>

\* an exemption test that asks for the path to be the prefix itself
IsExemptExact(path) ==
    \E i \in 1..Len(exempt_paths) : path = exempt_paths[i]

\* the loop over exempt_paths at the head of dispatch
IsExempt(path) ==
    \E i \in 1..Len(exempt_paths) : StartsWith(path, exempt_paths[i])

\* a header assignment that replaces the value downstream has set
SetOverwrite(headers, name, value) ==
    {h \in headers : h[1] # name} \cup {<<name, value>>}

\* response.headers.setdefault(name, value)
SetDefault(headers, name, value) ==
    IF \E h \in headers : h[1] = name
    THEN headers
    ELSE headers \cup {<<name, value>>}

HasHeader(headers, name) == \E h \in headers : h[1] = name

HeaderValue(headers, name) == (CHOOSE h \in headers : h[1] = name)[2]

---------------------------------------------------------------------------
(* The counter store, as the three calls of dispatch see it.               *)
(* A reply is an integer; the TTL of a key without expiry is -1 and of a   *)
(* missing key -2, or no value with a client that reports it so.  An       *)
(* optional integer is a sequence of at most one element.                  *)

Keys == { _key(_identifier(q)) : q \in Requests }

None == <<>>

\* the replies redis.ttl(key) may give
TtlReplies(key) ==
    IF count[key] = 0 THEN {<<-2>>, None}
    ELSE IF expiry[key] < 0 THEN {<<-1>>, None}
    ELSE {<<expiry[key]>>}

\* an increment that counts the request twice
IncrCountTwice(key) == [count EXCEPT ![key] = @ + 2]

\* an increment that reads and writes in two steps: the write of a request
\* is lost when another request of the key is on its way
IncrCountLost(key) ==
    IF count[key] > 0 /\ \E r \in BagToSet(inflight) : r.key = key
    THEN count
    ELSE [count EXCEPT ![key] = @ + 1]

\* the store after INCR key
IncrCount(key) == [count EXCEPT ![key] = @ + 1]

\* an expiry-set that reaches every key that lives
ExpireExpiryAll(key, seconds) ==
    [k \in Keys |-> IF count[k] = 0 THEN expiry[k] ELSE seconds]

\* the store after EXPIRE key seconds: a missing key gets none
ExpireExpiry(key, seconds) ==
    IF count[key] = 0 THEN expiry ELSE [expiry EXCEPT ![key] = seconds]

---------------------------------------------------------------------------
(* A suspended dispatch() call, and what a step lets the outside see *)

\* the locals of a dispatch() call waiting for redis.expire or redis.ttl
Suspended(pc, key, current) == [pc |-> pc, key |-> key, current |-> current]

NoCall == [op |-> "none", key |-> <<>>, ok |-> TRUE]

StoreCall(op, key, ok) == [op |-> op, key |-> key, ok |-> ok]

NoResp ==
    [via |-> "none", status |-> 0, body |-> [none |-> TRUE], headers |-> {},
     forwarded |-> FALSE, downstream |-> NoDownstream,
     key |-> <<>>, current |-> 0, ttl |-> None, now |-> 0]

\* return await call_next(request): the downstream response as it is
PassThrough(via, d, key, current) ==
    [via |-> via, status |-> d.status, body |-> d.body, headers |-> d.headers,
     forwarded |-> TRUE, downstream |-> d,
     key |-> key, current |-> current, ttl |-> None, now |-> 0]

\* a store error answered with 503 instead of letting the request through
FailClosed(d, key, current) ==
    [via |-> "fail_closed", status |-> 503,
     body |-> [detail |-> "Service Unavailable"], headers |-> {},
     forwarded |-> FALSE, downstream |-> NoDownstream,
     key |-> key, current |-> current, ttl |-> None, now |-> 0]

\* except Exception: return await call_next(request)
FailOpen(d, key, current) == PassThrough("fail_open", d, key, current)

\* a header value that is the text of the reply, None included
ResetHeaderOfReply(ttl) ==
    IF ttl # None THEN Str(ttl[1]) ELSE <<"N", "o", "n", "e">>

\* str(ttl if ttl is not None else self.time_window)
ResetHeader(ttl) == Str(IF ttl # None THEN ttl[1] ELSE time_window)

\* a reset time that adds whatever the TTL read returned
reset_tsOfReply(now, ttl) ==
    now + (IF ttl # None THEN ttl[1] ELSE time_window)

\* int(time.time()) + (ttl if ttl and ttl > 0 else self.time_window)
reset_ts(now, ttl) ==
    now + (IF ttl # None /\ ttl[1] # 0 /\ ttl[1] > 0 THEN ttl[1] ELSE time_window)

\* a 429 that carries the body and no header
RejectedBare(key, current, ttl, now) ==
    [via |-> "rejected", status |-> 429,
     body |-> [status |-> "error",
               error |-> [code |-> "RATE_LIMIT_EXCEEDED",
                          message |-> "Too many requests",
                          details |-> <<"A", "l", "l", "o", "w", "e", "d", " ">>
                                      \o Str(rate_limit)
                                      \o <<" ", "p", "e", "r", " ">>
                                      \o Str(time_window)
                                      \o <<" ", "s", "e", "c", "o", "n", "d", "s">>,
                          reset_at |-> reset_ts(now, ttl)]],
     headers |-> {},
     forwarded |-> FALSE, downstream |-> NoDownstream,
     key |-> key, current |-> current, ttl |-> ttl, now |-> now]

\* the JSONResponse of the branch current > self.rate_limit
Rejected(key, current, ttl, now) ==
    [via |-> "rejected", status |-> 429,
     body |-> [status |-> "error",
               error |-> [code |-> "RATE_LIMIT_EXCEEDED",
                          message |-> "Too many requests",
                          details |-> <<"A", "l", "l", "o", "w", "e", "d", " ">>
                                      \o Str(rate_limit)
                                      \o <<" ", "p", "e", "r", " ">>
                                      \o Str(time_window)
                                      \o <<" ", "s", "e", "c", "o", "n", "d", "s">>,
                          reset_at |-> reset_ts(now, ttl)]],
     headers |-> {<<HLimit, Str(rate_limit)>>,
                  <<HRemaining, <<"0">> >>,
                  <<HReset, ResetHeader(ttl)>>},
     forwarded |-> FALSE, downstream |-> NoDownstream,
     key |-> key, current |-> current, ttl |-> ttl, now |-> now]

\* the headers of an allowed response after the three setdefault calls
AdmittedHeaders(d, current, ttl) ==
    SetDefault(
        SetDefault(
            SetDefault(d.headers, HLimit, Str(rate_limit)),
            HRemaining, Str(Max(0, rate_limit - current))),
        HReset, ResetHeader(ttl))

\* the branch after the limit test: call_next, then the headers
Admitted(key, current, ttl, d) ==
    [via |-> "admitted", status |-> d.status, body |-> d.body,
     headers |-> AdmittedHeaders(d, current, ttl),
     forwarded |-> TRUE, downstream |-> d,
     key |-> key, current |-> current, ttl |-> ttl, now |-> 0]

\* a test for the new key that holds for every request
NeedsExpireAlways(current) == current >= 1

\* a test for the new key that looks for the value before the increment
NeedsExpireZero(current) == current = 0

\* if current == 1: the increment made the key
NeedsExpire(current) == current = 1

\* a limit test that counts the limit itself as over
OverLimitTestInclusive(current) == current >= rate_limit

\* a limit test that holds for the first request over the limit alone
OverLimitTestOnce(current) == current = rate_limit + 1

\* if current > self.rate_limit
OverLimitTest(current) == current > rate_limit

\* a suspended call is taken off the bag, and one put on it
Take(r) == inflight (-) SetToBag({r})

Put(bag, r) == bag (+) SetToBag({r})

\* no function is being called apart from dispatch
NoProbe == [fn |-> "none"]

\* nothing of the last step is left to be seen
Quiet == inreq = NoRequest /\ call = NoCall /\ resp = NoResp

---------------------------------------------------------------------------
(* The table of tasks before any call of the TaskRepository *)

NoException ==
    [type |-> "none", resource |-> <<>>, identifier |-> None, action |-> None,
     message |-> <<>>, status_code |-> 0]

NoResult ==
    [op |-> "none", tarea_id |-> <<>>, requester |-> None,
     include_deleted |-> FALSE, returned |-> None, listed |-> {},
     raised |-> NoException]

RepositoryIdle ==
    /\ tareas = {}
    /\ clock = 0
    /\ result = NoResult

---------------------------------------------------------------------------
(* The steps.  A step shows the request it took in, the store call it made *)
(* and the response it returned; Observe clears them before the next step. *)

Init ==
    /\ mw_redis \in {"None", "client"}
    /\ app_state_redis = mw_redis
    /\ count = [k \in Keys |-> 0]
    /\ expiry = [k \in Keys |-> -1]
    /\ inflight = EmptyBag
    /\ inreq = NoRequest
    /\ call = NoCall
    /\ resp = NoResp
    /\ probe = NoProbe
    /\ RepositoryIdle

\* on_startup: the connection is made when none was injected
Startup ==
    /\ Quiet
    /\ app_state_redis = "None"
    /\ app_state_redis' = "client"
    /\ inreq' = NoRequest
    /\ call' = NoCall
    /\ resp' = NoResp
    /\ UNCHANGED <<mw_redis, count, expiry, inflight, probe, repository>>

\* dispatch from its entry to the reply of redis.incr
Dispatch(q) ==
    /\ Quiet
    /\ BagCardinality(inflight) < MaxInFlight
    /\ inreq' = q
    /\ UNCHANGED <<mw_redis, app_state_redis, probe, repository>>
    /\ IF IsExempt(q.path)
       THEN /\ \E d \in DownstreamResponses : resp' = PassThrough("exempt", d, <<>>, 0)
            /\ call' = NoCall
            /\ UNCHANGED <<count, expiry, inflight>>
       ELSE IF _redis_from_request = "None"
       THEN /\ \E d \in DownstreamResponses : resp' = PassThrough("no_redis", d, <<>>, 0)
            /\ call' = NoCall
            /\ UNCHANGED <<count, expiry, inflight>>
       ELSE LET key == _key(_identifier(q))
            IN  /\ count[key] < MaxCount
                /\ \/ \* the increment is made and answered
                      /\ count' = IncrCount(key)
                      /\ inflight' = Put(inflight,
                            Suspended(IF NeedsExpire(count'[key]) THEN "expire" ELSE "ttl",
                                      key, count'[key]))
                      /\ call' = StoreCall("incr", key, TRUE)
                      /\ resp' = NoResp
                      /\ UNCHANGED expiry
                   \/ \* the call raises, with the increment made or not
                      /\ \E made \in BOOLEAN :
                            count' = IF made THEN IncrCount(key) ELSE count
                      /\ call' = StoreCall("incr", key, FALSE)
                      /\ \E d \in DownstreamResponses :
                            resp' = FailOpen(d, key, 0)
                      /\ UNCHANGED <<expiry, inflight>>

\* an expiry-set with no try of its own: when it raises, the handler of the
\* store calls as a whole lets the request through
ExpireFatal(r) ==
    /\ Quiet
    /\ r.pc = "expire"
    /\ \E ok \in BOOLEAN, made \in BOOLEAN :
          /\ ok => made
          /\ expiry' = IF made THEN ExpireExpiry(r.key, time_window)
                       ELSE expiry
          /\ call' = StoreCall("expire", r.key, ok)
          /\ IF ok
             THEN /\ inflight' = Put(Take(r), Suspended("ttl", r.key, r.current))
                  /\ resp' = NoResp
             ELSE /\ inflight' = Take(r)
                  /\ \E d \in DownstreamResponses :
                        resp' = FailOpen(d, r.key, r.current)
    /\ inreq' = NoRequest
    /\ UNCHANGED <<mw_redis, app_state_redis, count, probe, repository>>

\* redis.expire(key, self.time_window) of the call that saw current == 1;
\* when it raises, the expiry is set or not, and dispatch goes on
Expire(r) ==
    /\ Quiet
    /\ r.pc = "expire"
    /\ \E ok \in BOOLEAN, made \in BOOLEAN :
          /\ ok => made
          /\ expiry' = IF made THEN ExpireExpiry(r.key, time_window)
                       ELSE expiry
          /\ call' = StoreCall("expire", r.key, ok)
    /\ inflight' = Put(Take(r), Suspended("ttl", r.key, r.current))
    /\ inreq' = NoRequest
    /\ resp' = NoResp
    /\ UNCHANGED <<mw_redis, app_state_redis, count, probe, repository>>

\* dispatch from redis.ttl to its return
Ttl(r) ==
    /\ Quiet
    /\ r.pc = "ttl"
    /\ \/ \E ttl \in TtlReplies(r.key) :
             /\ call' = StoreCall("ttl", r.key, TRUE)
             /\ IF OverLimitTest(r.current)
                THEN \E now \in Times :
                        resp' = Rejected(r.key, r.current, ttl, now)
                ELSE \E d \in DownstreamResponses :
                        resp' = Admitted(r.key, r.current, ttl, d)
       \/ /\ call' = StoreCall("ttl", r.key, FALSE)
          /\ \E d \in DownstreamResponses :
                resp' = FailOpen(d, r.key, r.current)
    /\ inflight' = Take(r)
    /\ inreq' = NoRequest
    /\ UNCHANGED <<mw_redis, app_state_redis, count, expiry, probe, repository>>

\* a second passes in the store: keys with an expiry age, and go at its end
Tick ==
    /\ Quiet
    /\ \E k \in Keys : count[k] > 0 /\ expiry[k] >= 0
    /\ count' = [k \in Keys |->
                    IF count[k] > 0 /\ expiry[k] = 0 THEN 0 ELSE count[k]]
    /\ expiry' = [k \in Keys |->
                    IF count[k] > 0 /\ expiry[k] > 0 THEN expiry[k] - 1 ELSE -1]
    /\ inreq' = NoRequest
    /\ call' = NoCall
    /\ resp' = NoResp
    /\ UNCHANGED <<mw_redis, app_state_redis, inflight, probe, repository>>

\* what the last step showed has been seen
Observe ==
    /\ ~Quiet
    /\ inreq' = NoRequest
    /\ call' = NoCall
    /\ resp' = NoResp
    /\ UNCHANGED <<mw_redis, app_state_redis, count, expiry, inflight, probe, repository>>

Next ==
    \/ Startup
    \/ \E q \in Requests : Dispatch(q)
    \/ \E r \in BagToSet(inflight) : Expire(r)
    \/ \E r \in BagToSet(inflight) : Ttl(r)
    \/ Tick
    \/ Observe

Spec == Init /\ [][Next]_vars

\* the same program with a store none of whose calls raises
HealthyNext ==
    \/ Startup
    \/ \E q \in Requests : Dispatch(q) /\ call'.ok
    \/ \E r \in BagToSet(inflight) : Expire(r) /\ call'.ok
    \/ \E r \in BagToSet(inflight) : Ttl(r) /\ call'.ok
    \/ Tick
    \/ Observe

SpecHealthy == Init /\ [][HealthyNext]_vars

---------------------------------------------------------------------------
(* _identifier as a function of the request, over requests with every kind *)
(* of Authorization, X-Forwarded-For and peer.                             *)

BearerOnly == <<"B", "e", "a", "r", "e", "r">>

XffUserT == <<"u", "s", "e", "r", ":", "t">>

XffValues ==
    { <<>>, <<" ">>, <<"a">>, XffAB, <<",", "b">>, <<"a", ",">>,
      <<" ", "\t", "c", " ", "d", " ">>, XffUserT }

IdentifierInputs ==
    { [path |-> PathTareas, auth |-> a, xff |-> x, peer |-> p] :
        a \in {Absent, BasicT, BearerT, BearerOnly},
        x \in {Absent} \cup { <<v>> : v \in XffValues },
        p \in {Absent, PeerA, PeerC} }

\* the variables of the middleware and its store
limiter == <<mw_redis, app_state_redis, count, expiry, inflight, inreq, call, resp>>

\* the middleware has served nothing
LimiterIdle ==
    /\ mw_redis = "None"
    /\ app_state_redis = "None"
    /\ count = [k \in Keys |-> 0]
    /\ expiry = [k \in Keys |-> -1]
    /\ inflight = EmptyBag
    /\ inreq = NoRequest
    /\ call = NoCall
    /\ resp = NoResp

InitIdentifier ==
    /\ LimiterIdle
    /\ RepositoryIdle
    /\ \E q \in IdentifierInputs :
          probe = [fn |-> "_identifier", request |-> q, returned |-> FALSE,
                   result |-> <<>>]

\* ident = self._identifier(request)
Resolve ==
    /\ probe.fn = "_identifier"
    /\ ~probe.returned
    /\ probe' = [probe EXCEPT !.returned = TRUE,
                              !.result = _identifier(probe.request)]
    /\ UNCHANGED <<limiter, repository>>

NextIdentifier == Resolve

SpecIdentifier == InitIdentifier /\ [][NextIdentifier]_vars

---------------------------------------------------------------------------
(* The domain errors of app/tareas/crud.py and the handlers of              *)
(* app/exceptions.py.  An optional argument is no value or the text in a    *)
(* sequence of one element; an exception is a record of its type and        *)
(* attributes.                                                             *)

\* `if x:` of an optional text
Truthy(x) == x # None /\ x[1] # <<>>

\* NotFoundError(resource, identifier, message)
NotFoundError(resource, identifier, message) ==
    [type |-> "NotFoundError", resource |-> resource,
     identifier |-> identifier, action |-> None,
     message |-> IF message = None
                 THEN IF Truthy(identifier)
                      THEN resource \o <<" ", "n", "o", " ", "e", "n", "c", "o", "n", "t", "r", "a", "d", "a", " ", "(", "i", "d", "=">>
                           \o identifier[1] \o <<")">>
                      ELSE resource \o <<" ", "n", "o", " ", "e", "n", "c", "o", "n", "t", "r", "a", "d", "a">>
                 ELSE message[1],
     status_code |-> 404]

\* a PermissionDeniedError whose default message is the same for all
PermissionDeniedErrorPlain(resource, identifier, action, message) ==
    [type |-> "PermissionDeniedError", resource |-> resource,
     identifier |-> identifier, action |-> action,
     message |-> IF message = None THEN <<"P", "e", "r", "m", "i", "s", "o", " ", "d", "e", "n", "e", "g", "a", "d", "o">> ELSE message[1],
     status_code |-> 403]

\* PermissionDeniedError(resource, identifier, action, message)
PermissionDeniedError(resource, identifier, action, message) ==
    [type |-> "PermissionDeniedError", resource |-> resource,
     identifier |-> identifier, action |-> action,
     message |-> IF message = None
                 THEN IF Truthy(action) /\ Truthy(identifier)
                      THEN <<"N", "o", " ", "a", "u", "t", "o", "r", "i", "z", "a", "d", "o", " ", "p", "a", "r", "a", " ">> \o action[1] \o <<" ">>
                           \o resource \o <<" ", "(", "i", "d", "=">> \o identifier[1] \o <<")">>
                      ELSE IF Truthy(action)
                      THEN <<"N", "o", " ", "a", "u", "t", "o", "r", "i", "z", "a", "d", "o", " ", "p", "a", "r", "a", " ">> \o action[1] \o <<" ">>
                           \o resource
                      ELSE IF Truthy(identifier)
                      THEN <<"N", "o", " ", "a", "u", "t", "o", "r", "i", "z", "a", "d", "o", " ", "s", "o", "b", "r", "e", " ">> \o resource
                           \o <<" ", "(", "i", "d", "=">> \o identifier[1] \o <<")">>
                      ELSE <<"P", "e", "r", "m", "i", "s", "o", " ", "d", "e", "n", "e", "g", "a", "d", "o">>
                 ELSE message[1],
     status_code |-> 403]

\* str(exc): __str__ returns self.message
str(exc) == exc.message

\* JSONResponse(status_code=..., content={"detail": ...})
JSONDetail(status_code, detail) ==
    [status_code |-> status_code, content |-> [detail |-> detail]]

not_found_exception_handler(exc) == JSONDetail(exc.status_code, str(exc))

permission_denied_exception_handler(exc) == JSONDetail(exc.status_code, str(exc))

generic_exception_handler(exc) ==
    JSONDetail(500, <<"I", "n", "t", "e", "r", "n", "a", "l", " ", "S", "e", "r", "v", "e", "r", " ", "E", "r", "r", "o", "r">>)

NoResponse == [status_code |-> 0, content |-> [none |-> TRUE]]

TResource == <<"r", "e", "s", "o", "u", "r", "c", "e">>
TTarea == <<"T", "a", "r", "e", "a">>

\* the arguments a domain error may be made with
OptionalTexts(texts) == {None} \cup { <<t>> : t \in texts \cup {<<>>} }

DomainErrorArgs ==
    [resource : {TResource, TTarea},
     identifier : OptionalTexts({<<"7">>}),
     action : OptionalTexts({<<"v", "e", "r">>}),
     message : OptionalTexts({<<"n", "o">>})]

InitHandlers ==
    /\ LimiterIdle
    /\ RepositoryIdle
    /\ \E type \in {"NotFoundError", "PermissionDeniedError"},
          given \in DomainErrorArgs :
          /\ type = "NotFoundError" => given.action = None
          /\ probe = [fn |-> "handler", type |-> type, given |-> given,
                      returned |-> FALSE, response |-> NoResponse]

\* a NotFoundError is raised and not_found_exception_handler answers
HandleNotFound ==
    /\ probe.fn = "handler" /\ probe.type = "NotFoundError"
    /\ ~probe.returned
    /\ LET exc == NotFoundError(probe.given.resource, probe.given.identifier,
                                probe.given.message)
       IN  probe' = [probe EXCEPT !.returned = TRUE,
                                  !.response = not_found_exception_handler(exc)]
    /\ UNCHANGED <<limiter, repository>>

\* a PermissionDeniedError is raised and its handler answers
HandlePermissionDenied ==
    /\ probe.fn = "handler" /\ probe.type = "PermissionDeniedError"
    /\ ~probe.returned
    /\ LET exc == PermissionDeniedError(probe.given.resource,
                      probe.given.identifier, probe.given.action,
                      probe.given.message)
       IN  probe' = [probe EXCEPT !.returned = TRUE,
                                  !.response = permission_denied_exception_handler(exc)]
    /\ UNCHANGED <<limiter, repository>>

NextHandlers == HandleNotFound \/ HandlePermissionDenied

SpecHandlers == InitHandlers /\ [][NextHandlers]_vars

---------------------------------------------------------------------------
(* An exception raised in the body of a route of app/tareas/routes.py: the *)
(* except clauses of the route, then the handler the application has for   *)
(* the exception that leaves the route.                                    *)

\* HTTPException(status_code=..., detail=...)
HTTPException(status_code, detail) ==
    [type |-> "HTTPException", resource |-> <<>>, identifier |-> None,
     action |-> None, message |-> detail, status_code |-> status_code]

\* an exception of the session or the database, with its text
InternalError(type, text) ==
    [type |-> type, resource |-> <<>>, identifier |-> None,
     action |-> None, message |-> text, status_code |-> 0]

_map_notfound(exc) == HTTPException(exc.status_code, str(exc))

_map_permission(exc) == HTTPException(exc.status_code, str(exc))

TareaIds == {<<"7">>, <<"8">>, <<"9">>}

InternalTexts ==
    {<<"d", "a", "t", "a", "b", "a", "s", "e", " ", "i", "s", " ", "l", "o", "c", "k", "e", "d">>, <<"n", "o", " ", "s", "u", "c", "h", " ", "t", "a", "b", "l", "e", ":", " ", "t", "a", "r", "e", "a", "s">>,
     <<"U", "N", "I", "Q", "U", "E", " ", "c", "o", "n", "s", "t", "r", "a", "i", "n", "t", " ", "f", "a", "i", "l", "e", "d">>}

Routes ==
    {"create_tarea", "list_tareas", "get_tarea", "update_tarea",
     "delete_tarea", "restore_tarea"}

\* the action a route names in its PermissionDeniedError
ActionOf(route) ==
    CASE route = "get_tarea" -> <<"v", "e", "r">>
      [] route = "update_tarea" -> <<"a", "c", "t", "u", "a", "l", "i", "z", "a", "r">>
      [] OTHER -> <<"e", "l", "i", "m", "i", "n", "a", "r">>

\* the exceptions that may be raised in the body of the route
Raises(route) ==
    { InternalError("Exception", t) : t \in InternalTexts }
    \cup
    ( IF route \in {"get_tarea", "update_tarea", "delete_tarea", "restore_tarea"}
      THEN { NotFoundError(TTarea, <<i>>, None) : i \in TareaIds }
           \cup { PermissionDeniedError(TTarea, <<i>>, <<ActionOf(route)>>, None) :
                    i \in TareaIds }
      ELSE {} )
    \cup
    ( IF route = "update_tarea"
      THEN { InternalError("ValueError", <<"E", "s", "t", "a", "d", "o", " ", "i", "n", "v", "a", "l", "i", "d", "o", ":", " ", "x">>) }
      ELSE {} )

\* the exception that leaves the route: the first except clause that fits
Except(route, exc) ==
    LET domain == route \in {"get_tarea", "update_tarea", "delete_tarea",
                             "restore_tarea"}
        any == route \in {"create_tarea", "update_tarea", "delete_tarea",
                          "restore_tarea"}
    IN  IF domain /\ exc.type = "NotFoundError" THEN _map_notfound(exc)
        ELSE IF domain /\ exc.type = "PermissionDeniedError"
        THEN _map_permission(exc)
        ELSE IF route = "update_tarea" /\ exc.type = "ValueError"
        THEN HTTPException(400, str(exc))
        ELSE IF any THEN HTTPException(500, str(exc))
        ELSE exc

\* the handler the application calls for the exception
HandlerOf(exc) ==
    CASE exc.type = "HTTPException" -> "http_exception_handler"
      [] exc.type = "NotFoundError" -> "not_found_exception_handler"
      [] exc.type = "PermissionDeniedError" -> "permission_denied_exception_handler"
      [] OTHER -> "generic_exception_handler"

\* the response of that handler
Handle(exc) ==
    CASE exc.type = "HTTPException" -> JSONDetail(exc.status_code, exc.message)
      [] exc.type = "NotFoundError" -> not_found_exception_handler(exc)
      [] exc.type = "PermissionDeniedError" -> permission_denied_exception_handler(exc)
      [] OTHER -> generic_exception_handler(exc)

InitRoutes ==
    /\ LimiterIdle
    /\ RepositoryIdle
    /\ \E route \in Routes :
          \E exc \in Raises(route) :
             probe = [fn |-> "route", route |-> route, raised |-> exc,
                      exc |-> exc, at |-> "raised", caught_by |-> <<>>,
                      response |-> NoResponse]

\* the exception meets the except clauses of the route
RouteExcept ==
    /\ probe.fn = "route" /\ probe.at = "raised"
    /\ LET out == Except(probe.route, probe.exc)
       IN  probe' = [probe EXCEPT
                        !.exc = out,
                        !.at = "left_route",
                        !.caught_by = IF out = probe.exc THEN @
                                      ELSE Append(@, probe.route)]
    /\ UNCHANGED <<limiter, repository>>

\* the handler of the application answers the exception that left the route
ExceptionHandler ==
    /\ probe.fn = "route" /\ probe.at = "left_route"
    /\ probe' = [probe EXCEPT
                    !.at = "responded",
                    !.caught_by = Append(@, HandlerOf(probe.exc)),
                    !.response = Handle(probe.exc)]
    /\ UNCHANGED <<limiter, repository>>

NextRoutes == RouteExcept \/ ExceptionHandler

SpecRoutes == InitRoutes /\ [][NextRoutes]_vars

---------------------------------------------------------------------------
(* TaskRepository of app/tareas/crud.py over the table "tareas".  A call   *)
(* is one transaction; result shows what it returned or raised.            *)

RepoIds == {<<"7">>, <<"8">>}

Users == {"u1", "u2"}

\* requester_user_id: no value or the id of a user
Requesters == {None} \cup { <<u>> : u \in Users }

\* TareaUpdate.dict(exclude_unset=True): the fields the client has set
UpdateData ==
    { {},
      { <<"titulo", <<"b">>>> },
      { <<"estado", "completada">>, <<"descripcion", <<<<"d">>>> >> } }

\* a query that leaves soft-deleted rows in whatever the argument is
_base_queryAll(include_deleted) == tareas

\* select(Tareas) filtered on is_deleted
_base_query(include_deleted) ==
    IF ~include_deleted
    THEN { row \in tareas : row.is_deleted = FALSE }
    ELSE { row \in tareas : row.is_deleted = TRUE }

\* TaskRepository.get: .where(Tareas.tarea_id == tarea_id), .first()
get(tarea_id, include_deleted) ==
    LET found == { row \in _base_query(include_deleted) : row.tarea_id = tarea_id }
    IN  IF found = {} THEN None ELSE << CHOOSE row \in found : TRUE >>

\* the value of the field after the loop over data.items()
Updated(row, data, key) ==
    IF \E d \in data : d[1] = key
    THEN (CHOOSE d \in data : d[1] = key)[2]
    ELSE row[key]

\* nothing raised: the call returned
Returned(op, tarea_id, requester, include_deleted, value) ==
    [op |-> op, tarea_id |-> tarea_id, requester |-> requester,
     include_deleted |-> include_deleted, returned |-> value, listed |-> {},
     raised |-> NoException]

Raised(op, tarea_id, requester, exc) ==
    [op |-> op, tarea_id |-> tarea_id, requester |-> requester,
     include_deleted |-> FALSE, returned |-> None, listed |-> {},
     raised |-> exc]

\* no call of the repository is left to be seen
Settled == result = NoResult

InitTareas ==
    /\ LimiterIdle
    /\ probe = NoProbe
    /\ RepositoryIdle

\* TaskRepository.create
Create(user_id, titulo) ==
    /\ Settled
    /\ \E id \in RepoIds :
          /\ \A row \in tareas : row.tarea_id # id
          /\ LET tarea == [tarea_id |-> id, user_id |-> user_id,
                           titulo |-> titulo, descripcion |-> None,
                           estado |-> "pendiente", created_at |-> clock,
                           updated_at |-> clock, is_deleted |-> FALSE]
             IN  /\ tareas' = tareas \cup {tarea}
                 /\ result' = Returned("create", id, None, FALSE, <<tarea>>)
    /\ UNCHANGED <<limiter, probe, clock>>

\* TaskRepository.get
Get(tarea_id, include_deleted) ==
    /\ Settled
    /\ result' = Returned("get", tarea_id, None, include_deleted,
                          get(tarea_id, include_deleted))
    /\ UNCHANGED <<limiter, probe, tareas, clock>>

\* TaskRepository.list with skip = 0 and a limit over the size of the table
List(user_id, include_deleted) ==
    /\ Settled
    /\ result' = [Returned("list", <<>>, user_id, include_deleted, None)
                    EXCEPT !.listed =
                        { row \in _base_query(include_deleted) :
                            user_id # None => row.user_id = user_id[1] }]
    /\ UNCHANGED <<limiter, probe, tareas, clock>>

\* TaskRepository.update
Update(tarea_id, data, requester_user_id) ==
    /\ Settled
    /\ LET tarea == get(tarea_id, FALSE)
       IN  IF tarea = None
           THEN /\ result' = Raised("update", tarea_id, requester_user_id,
                                    NotFoundError(TTarea, <<tarea_id>>, None))
                /\ UNCHANGED tareas
           ELSE IF requester_user_id # None
                   /\ tarea[1].user_id # requester_user_id[1]
           THEN /\ result' = Raised("update", tarea_id, requester_user_id,
                                PermissionDeniedError(TTarea, <<tarea_id>>,
                                    <<<<"a", "c", "t", "u", "a", "l", "i", "z", "a", "r">>>>, None))
                /\ UNCHANGED tareas
           ELSE LET new == [tarea[1] EXCEPT
                               !.titulo = Updated(tarea[1], data, "titulo"),
                               !.descripcion = Updated(tarea[1], data, "descripcion"),
                               !.estado = Updated(tarea[1], data, "estado"),
                               !.updated_at = clock]
                IN  /\ tareas' = (tareas \ {tarea[1]}) \cup {new}
                    /\ result' = Returned("update", tarea_id, requester_user_id,
                                          FALSE, <<new>>)
    /\ UNCHANGED <<limiter, probe, clock>>

\* TaskRepository.soft_delete
SoftDelete(tarea_id, requester_user_id) ==
    /\ Settled
    /\ LET tarea == get(tarea_id, FALSE)
       IN  IF tarea = None
           THEN /\ result' = Raised("soft_delete", tarea_id, requester_user_id,
                                    NotFoundError(TTarea, <<tarea_id>>, None))
                /\ UNCHANGED tareas
           ELSE IF requester_user_id # None
                   /\ tarea[1].user_id # requester_user_id[1]
           THEN /\ result' = Raised("soft_delete", tarea_id, requester_user_id,
                                PermissionDeniedError(TTarea, <<tarea_id>>,
                                    <<<<"e", "l", "i", "m", "i", "n", "a", "r">>>>, None))
                /\ UNCHANGED tareas
           ELSE LET new == [tarea[1] EXCEPT !.is_deleted = TRUE,
                                            !.updated_at = clock]
                IN  /\ tareas' = (tareas \ {tarea[1]}) \cup {new}
                    /\ result' = Returned("soft_delete", tarea_id,
                                          requester_user_id, FALSE, <<new>>)
    /\ UNCHANGED <<limiter, probe, clock>>

\* TaskRepository.restore
Restore(tarea_id, requester_user_id) ==
    /\ Settled
    /\ LET tarea == get(tarea_id, TRUE)
       IN  IF tarea = None
           THEN /\ result' = Raised("restore", tarea_id, requester_user_id,
                                    NotFoundError(TTarea, <<tarea_id>>, None))
                /\ UNCHANGED tareas
           ELSE IF ~tarea[1].is_deleted
           THEN /\ result' = Returned("restore", tarea_id, requester_user_id,
                                      FALSE, tarea)
                /\ UNCHANGED tareas
           ELSE IF requester_user_id # None
                   /\ tarea[1].user_id # requester_user_id[1]
           THEN /\ result' = Raised("restore", tarea_id, requester_user_id,
                                PermissionDeniedError(TTarea, <<tarea_id>>,
                                    <<<<"e", "l", "i", "m", "i", "n", "a", "r">>>>, None))
                /\ UNCHANGED tareas
           ELSE LET new == [tarea[1] EXCEPT !.is_deleted = FALSE,
                                            !.updated_at = clock]
                IN  /\ tareas' = (tareas \ {tarea[1]}) \cup {new}
                    /\ result' = Returned("restore", tarea_id,
                                          requester_user_id, FALSE, <<new>>)
    /\ UNCHANGED <<limiter, probe, clock>>

\* time passes between two calls
Advance ==
    /\ Settled
    /\ clock < MaxClock
    /\ clock' = clock + 1
    /\ UNCHANGED <<limiter, probe, tareas, result>>

\* the caller has taken what the call returned or raised
Taken ==
    /\ ~Settled
    /\ result' = NoResult
    /\ UNCHANGED <<limiter, probe, tareas, clock>>

NextTareas ==
    \/ \E u \in Users : Create(u, <<"a">>)
    \/ \E id \in RepoIds, include_deleted \in BOOLEAN : Get(id, include_deleted)
    \/ \E u \in Requesters, include_deleted \in BOOLEAN : List(u, include_deleted)
    \/ \E id \in RepoIds, data \in UpdateData, u \in Requesters : Update(id, data, u)
    \/ \E id \in RepoIds, u \in Requesters : SoftDelete(id, u)
    \/ \E id \in RepoIds, u \in Requesters : Restore(id, u)
    \/ Advance
    \/ Taken

SpecTareas == InitTareas /\ [][NextTareas]_vars

---------------------------------------------------------------------------
(* TareaCreate of app/tareas/schemas.py: the validation of titulo.  The    *)
(* value is no value or a text in a sequence of one element.               *)

\* c.lower() of one character of the titles below
LowerChar(c) ==
    CASE c = "S" -> "s" [] c = "T" -> "t" [] c = "R" -> "r"
      [] c = "I" -> "i" [] c = "N" -> "n" [] c = "G" -> "g"
      [] c = "X" -> "x" [] c = "A" -> "a"
      [] OTHER -> c

\* s.lower()
Lower(s) == [i \in 1..Len(s) |-> LowerChar(s[i])]

_titulo_invalido(valor) ==
    IF valor = None THEN TRUE
    ELSE LET cleaned == Strip(valor[1])
         IN  IF cleaned = <<>> THEN TRUE
             ELSE IF Lower(cleaned) = <<"s", "t", "r", "i", "n", "g">> THEN TRUE
             ELSE FALSE

\* constr(min_length=1, max_length=255)
min_length == 1
max_length == 255

\* the errors of TareaCreate(titulo=v): the validator, then the constraints
TituloErrors(v) ==
    IF _titulo_invalido(v)
    THEN {"Debe ingresar un titulo valido"}
    ELSE IF Len(v[1]) < min_length
    THEN {"ensure this value has at least 1 characters"}
    ELSE IF Len(v[1]) > max_length
    THEN {"ensure this value has at most 255 characters"}
    ELSE {}

\* the word "string" with each letter in either case
StringCasings ==
    { <<a, b, c, d, e, f>> :
        a \in {"s", "S"}, b \in {"t", "T"}, c \in {"r", "R"},
        d \in {"i", "I"}, e \in {"n", "N"}, f \in {"g", "G"} }

Xs(n) == [i \in 1..n |-> "x"]

Titulos ==
    {None}
    \cup { <<t>> : t \in StringCasings }
    \cup { <<t>> : t \in { <<>>, <<" ">>, <<" ", "\t">>, <<"a">>, <<" ", "a", " ">>,
                           <<" ", "S", "t", "r", "i", "n", "g", " ">>, <<"s", "t", "r", "i", "n", "g", "s">>, <<"s", "t", "r", " ", "i", "n", "g">>, <<"A", " ", "X">>,
                           Xs(max_length), Xs(max_length + 1) } }

\* the errors of TareaUpdate(titulo=v), or of TareaUpdate() when the field
\* is not set: Optional[constr(...)] with no validator takes None as it is
UpdateTituloErrors(is_set, v) ==
    IF ~is_set \/ v = None
    THEN {}
    ELSE IF Len(v[1]) < min_length
    THEN {"ensure this value has at least 1 characters"}
    ELSE IF Len(v[1]) > max_length
    THEN {"ensure this value has at most 255 characters"}
    ELSE {}

\* tarea_in.dict(exclude_unset=True) of the TareaUpdate that was built, as
\* TaskRepository.update reads it
UpdateDict(is_set, v) ==
    IF is_set /\ UpdateTituloErrors(is_set, v) = {}
    THEN { <<"titulo", v>> }
    ELSE {}

InitTitulo ==
    /\ LimiterIdle
    /\ RepositoryIdle
    /\ \/ \E v \in Titulos :
             probe = [fn |-> "TareaCreate", titulo |-> v, is_set |-> TRUE,
                      returned |-> FALSE, errors |-> {}, data |-> {}]
       \/ \E v \in Titulos, is_set \in BOOLEAN :
             /\ ~is_set => v = None
             /\ probe = [fn |-> "TareaUpdate", titulo |-> v, is_set |-> is_set,
                         returned |-> FALSE, errors |-> {}, data |-> {}]

\* TareaCreate(user_id=..., titulo=v)
ValidateTitulo ==
    /\ probe.fn = "TareaCreate"
    /\ ~probe.returned
    /\ probe' = [probe EXCEPT !.returned = TRUE,
                              !.errors = TituloErrors(probe.titulo)]
    /\ UNCHANGED <<limiter, repository>>

\* TareaUpdate(titulo=v) or TareaUpdate(), and the dict update() takes of it
ValidateUpdate ==
    /\ probe.fn = "TareaUpdate"
    /\ ~probe.returned
    /\ probe' = [probe EXCEPT
                    !.returned = TRUE,
                    !.errors = UpdateTituloErrors(probe.is_set, probe.titulo),
                    !.data = UpdateDict(probe.is_set, probe.titulo)]
    /\ UNCHANGED <<limiter, repository>>

NextTitulo ==
    \/ ValidateTitulo
    \/ ValidateUpdate

SpecTitulo == InitTitulo /\ [][NextTitulo]_vars

---------------------------------------------------------------------------
(* The exempt paths of a middleware built with a list of its own: __init__  *)
(* and the loop at the head of dispatch.  The argument exempt_paths is no   *)
(* value or a list of texts in a sequence of one element.                   *)

\* self.exempt_paths = exempt_paths or [defaults]: None and the empty list
\* are both false
init_exempt_paths(arg) ==
    IF arg = None \/ arg[1] = <<>> THEN default_exempt_paths ELSE arg[1]

\* for p in self.exempt_paths: if request.url.path.startswith(p)
ExemptBy(paths, path) ==
    \E i \in 1..Len(paths) : StartsWith(path, paths[i])

ExemptPathsArgs ==
    { None,
      << <<>> >>,
      << << <<"/", "x">> >> >>,
      << << <<"/", "d", "o", "c", "s">>, <<"/", "t", "a", "r", "e", "a", "s">> >> >>,
      << << <<"/", "h", "e", "a", "l", "t", "h", "z">> >> >>,
      << << <<>> >> >>,
      << << <<"/">> >> >> }

ExemptProbePaths ==
    { PathTareas, PathDoc, PathDocsX, PathHealthz, <<"/", "s", "t", "a", "t", "i", "c", "/", "a">>,
      <<"/", "o", "p", "e", "n", "a", "p", "i", ".", "j", "s", "o", "n">>, <<"/", "x">>, <<"/", "x", "/", "y">>, <<"/">> }

InitExempt ==
    /\ LimiterIdle
    /\ RepositoryIdle
    /\ \E arg \in ExemptPathsArgs, path \in ExemptProbePaths :
          probe = [fn |-> "exempt", exempt_paths |-> arg, path |-> path,
                   returned |-> FALSE, self_exempt_paths |-> <<>>,
                   exempt |-> FALSE]

\* RedisRateLimitMiddleware(app, exempt_paths=arg), then the head of
\* dispatch for a request of the path
CheckExempt ==
    /\ probe.fn = "exempt"
    /\ ~probe.returned
    /\ LET paths == init_exempt_paths(probe.exempt_paths)
       IN  probe' = [probe EXCEPT !.returned = TRUE,
                                  !.self_exempt_paths = paths,
                                  !.exempt = ExemptBy(paths, probe.path)]
    /\ UNCHANGED <<limiter, repository>>

NextExempt == CheckExempt

SpecExempt == InitExempt /\ [][NextExempt]_vars

---------------------------------------------------------------------------
(* create_app of app/main.py and the life of the application it returns:    *)
(* the startup hook, run any number of times, next to the requests the      *)
(* middleware handles.  probe holds the argument of create_app, the runs of *)
(* the hook and the connections the hook has made.                          *)

\* Redis(host=..., port=..., db=...): the n-th connection made
Connection(n) ==
    CASE n = 1 -> "Redis#1" [] n = 2 -> "Redis#2" [] n = 3 -> "Redis#3"
      [] OTHER -> "Redis#n"

\* a hook that makes its connection whatever app.state holds
NeedsConnectionAlways == TRUE

\* if not hasattr(app.state, "redis") or app.state.redis is None
NeedsConnection == app_state_redis = "None"

\* create_app(redis_client=None) or create_app(redis_client=client)
InitLifecycle ==
    /\ \E redis_client \in {"None", "client"} :
          /\ mw_redis = redis_client
          /\ app_state_redis = redis_client
          /\ probe = [fn |-> "create_app", redis_client |-> redis_client,
                      started |-> 0, connections |-> 0]
    /\ count = [k \in Keys |-> 0]
    /\ expiry = [k \in Keys |-> -1]
    /\ inflight = EmptyBag
    /\ inreq = NoRequest
    /\ call = NoCall
    /\ resp = NoResp
    /\ RepositoryIdle

\* on_startup, as far as the store client goes
on_startup ==
    /\ Quiet
    /\ probe.started < MaxStartups
    /\ IF NeedsConnection
       THEN /\ app_state_redis' = Connection(probe.connections + 1)
            /\ probe' = [probe EXCEPT !.started = @ + 1, !.connections = @ + 1]
       ELSE /\ app_state_redis' = app_state_redis
            /\ probe' = [probe EXCEPT !.started = @ + 1]
    /\ UNCHANGED <<mw_redis, count, expiry, inflight, inreq, call, resp,
                   repository>>

NextLifecycle ==
    \/ on_startup
    \/ \E q \in Requests : Dispatch(q)
    \/ \E r \in BagToSet(inflight) : Expire(r)
    \/ \E r \in BagToSet(inflight) : Ttl(r)
    \/ Tick
    \/ Observe

SpecLifecycle == InitLifecycle /\ [][NextLifecycle]_vars

---------------------------------------------------------------------------
(* Properties *)

\* the step is the increment of a request for key k
IncrOf(k) == call'.op = "incr" /\ call'.key = k

\* the step resumes the suspended call r at its TTL read
TtlOf(r) == call'.op = "ttl" /\ inflight' = Take(r)

\* the response of the step is the middleware's own 429
Is429(response) == response.status = 429 /\ ~response.forwarded

\* the path starts with one of the prefixes the middleware is set up with
HasExemptPrefix(path) ==
    \/ StartsWith(path, <<"/", "d", "o", "c", "s">>)
    \/ StartsWith(path, <<"/", "o", "p", "e", "n", "a", "p", "i", ".", "j", "s", "o", "n">>)
    \/ StartsWith(path, <<"/", "h", "e", "a", "l", "t", "h", "z">>)
    \/ StartsWith(path, <<"/", "s", "t", "a", "t", "i", "c">>)

\* the step takes in a request that is not exempt, with a store client at hand
TakesCounted ==
    /\ inreq' # NoRequest
    /\ ~HasExemptPrefix(inreq'.path)
    /\ _redis_from_request # "None"

\* the counter of no key goes down in the step, but by the store expiring
\* a key whose time is up, in a step in which the middleware does nothing
DownOnlyByExpiry ==
    \A k \in Keys :
        count'[k] < count[k]
        => /\ count'[k] = 0 /\ expiry[k] = 0
           /\ call' = NoCall /\ inreq' = NoRequest /\ inflight' = inflight

\* C1 as stated.  Once the counter of a key is over the limit, every later
\* request for that key is answered 429 and not forwarded while the key
\* lives: neither the step of its increment nor the step of its TTL read
\* forwards it.
C1_Original ==
    [][ /\ \A k \in Keys :
              (count[k] > rate_limit /\ IncrOf(k)) => ~resp'.forwarded
        /\ \A r \in BagToSet(inflight) :
              (r.current > rate_limit + 1 /\ TtlOf(r)) => Is429(resp')
      ]_vars

\* C1 as amended.  Once the counter of a key is over the limit, every later
\* request for that key whose increment and TTL read are both answered is
\* answered 429 and not forwarded: its increment returns a value over the
\* limit and forwards nothing, and its TTL read ends in the 429.
C1_RejectedWhileOverLimit ==
    [][ /\ \A k \in Keys :
              (count[k] > rate_limit /\ IncrOf(k) /\ call'.ok)
              => /\ resp' = NoResp
                 /\ inflight' = Put(inflight, Suspended("ttl", k, count[k] + 1))
        /\ \A r \in BagToSet(inflight) :
              (r.current > rate_limit + 1 /\ TtlOf(r) /\ call'.ok)
              => Is429(resp')
      ]_vars

\* a request that came after the counter had passed the limit got its 429
C1_Witness ==
    /\ call.op = "ttl" /\ call.ok
    /\ resp.current > rate_limit + 1
    /\ Is429(resp)

\* the step resumes the suspended call r at its expiry-set
ExpireOf(r) ==
    /\ call'.op = "expire" /\ call'.key = r.key
    /\ inflight' = Put(Take(r), Suspended("ttl", r.key, r.current))

\* the step forwards the request and returns what downstream returned
IsForwarded(response) ==
    /\ response.forwarded
    /\ response.downstream \in DownstreamResponses
    /\ response.status = response.downstream.status
    /\ response.body = response.downstream.body

\* C3 as stated.  With the key of an identifier gone from the store, the
\* next request of that identifier sees the count 1 (its increment being
\* answered), sets an expiry of time_window on the key, and is forwarded.
C3_Original ==
    [][ /\ \A k \in Keys :
              (count[k] = 0 /\ IncrOf(k) /\ call'.ok)
              => /\ inflight' = Put(inflight, Suspended("expire", k, 1))
                 /\ count'[k] = 1
        /\ \A r \in BagToSet(inflight) :
              /\ (r.pc = "expire" /\ ExpireOf(r))
                 => expiry'[r.key] = time_window
              /\ (r.current = 1 /\ TtlOf(r)) => IsForwarded(resp')
      ]_vars

\* C3 as amended.  With the key of an identifier gone from the store, the
\* next request of that identifier, when its increment is answered, sees
\* the count 1 and goes on to call the expiry-set; that call, when it is
\* answered, leaves the key with time_window seconds to live; and the
\* request is forwarded, however the TTL read ends.
C3_FreshWindow ==
    [][ /\ \A k \in Keys :
              (count[k] = 0 /\ IncrOf(k) /\ call'.ok)
              => /\ inflight' = Put(inflight, Suspended("expire", k, 1))
                 /\ count'[k] = 1
                 /\ resp' = NoResp
        /\ \A r \in BagToSet(inflight) :
              /\ r.pc = "expire" => r.current = 1 /\ count[r.key] >= 1
              /\ (r.pc = "expire" /\ CopiesIn(r, inflight') < CopiesIn(r, inflight))
                 => ExpireOf(r)
              /\ (r.pc = "expire" /\ ExpireOf(r) /\ call'.ok)
                 => expiry'[r.key] = time_window
              /\ (r.current = 1 /\ TtlOf(r)) => IsForwarded(resp')
      ]_vars

\* the first request of a new window is admitted while a request that the
\* window before had put over the limit is still on its way
C3_Witness ==
    /\ resp.via = "admitted" /\ resp.current = 1
    /\ count[resp.key] >= 1 /\ expiry[resp.key] = time_window
    /\ \E r \in BagToSet(inflight) :
          r.key = resp.key /\ r.current > rate_limit

\* the response carries the header with that value
Carries(response, name, value) ==
    /\ HasHeader(response.headers, name)
    /\ HeaderValue(response.headers, name) = value

\* C4.  With a store whose calls are all answered, the request whose
\* increment is the k-th of the key's life is forwarded exactly when
\* k <= rate_limit, and then carries X-RateLimit-Remaining = rate_limit - k
\* (downstream, as the routes of the application, setting no such header
\* itself), and is answered 429 with the code RATE_LIMIT_EXCEEDED exactly
\* when k > rate_limit.
C4_KthRequest ==
    [][ /\ \A k \in Keys :
              IncrOf(k)
              => \E pc \in {"expire", "ttl"} :
                    inflight' = Put(inflight, Suspended(pc, k, count[k] + 1))
        /\ \A r \in BagToSet(inflight) :
              TtlOf(r)
              => /\ r.current <= rate_limit
                    => /\ IsForwarded(resp')
                       /\ ~HasHeader(resp'.downstream.headers, HRemaining)
                          => Carries(resp', HRemaining, Str(rate_limit - r.current))
                 /\ r.current > rate_limit
                    => /\ Is429(resp')
                       /\ resp'.body.error.code = "RATE_LIMIT_EXCEEDED"
      ]_vars

\* requests one after the other: the one past the limit got the 429, the
\* one before it had been admitted with nothing remaining
C4_Witness ==
    /\ Is429(resp) /\ resp.current = rate_limit + 1
    /\ resp.body.error.code = "RATE_LIMIT_EXCEEDED"
    /\ inflight = EmptyBag
    /\ count[resp.key] = rate_limit + 1

\* the response is the downstream response with nothing changed
IsUnmodified(response) ==
    /\ IsForwarded(response)
    /\ response.headers = response.downstream.headers

\* C5.  When a call to the store raises, the request is let through: a
\* raising increment or TTL read ends dispatch with the downstream response
\* as it is, never a 429 or another answer of the middleware's own, and a
\* raising expiry-set is passed over; so with a store that cannot be
\* reached every request that is not exempt is forwarded at its increment.
C5_FailOpen ==
    [][ /\ (TakesCounted /\ ~call'.ok)
           => /\ call'.op = "incr"
              /\ IsUnmodified(resp')
              /\ inflight' = inflight
        /\ (call'.op \in {"incr", "ttl"} /\ ~call'.ok)
           => /\ IsUnmodified(resp')
              /\ BagCardinality(inflight') <= BagCardinality(inflight)
        /\ (call'.op = "expire" /\ ~call'.ok)
           => /\ resp' = NoResp
              /\ \E r \in BagToSet(inflight) : ExpireOf(r)
      ]_vars

\* the store fails a request of an identifier that is over its limit, and
\* the request is let through
C5_Witness ==
    /\ call.op = "incr" /\ ~call.ok
    /\ count[call.key] > rate_limit
    /\ IsUnmodified(resp)

\* C6.  A request whose path starts with an exempt prefix makes no call to
\* the store and leaves every counter, every expiry and every suspended
\* call as it was, and its response is the downstream response with no
\* header added, whatever the counters hold.
C6_ExemptUntouched ==
    [][ (inreq' # NoRequest /\ HasExemptPrefix(inreq'.path))
        => /\ call' = NoCall
           /\ count' = count /\ expiry' = expiry /\ inflight' = inflight
           /\ IsUnmodified(resp')
      ]_vars

\* an exempt request, longer than its prefix, of a caller who is over the
\* limit went through without a call to the store
C6_Witness ==
    /\ inreq.path = PathDocsX
    /\ count[_key(_identifier(inreq))] > rate_limit
    /\ _redis_from_request # "None"
    /\ call = NoCall
    /\ IsUnmodified(resp)

\* the suspended calls about to set the expiry of key k
Arming(k) == { r \in BagToSet(inflight) : r.key = k /\ r.pc = "expire" }

\* C7.  The expiry of a key is set by the request whose increment made the
\* key, and by no other: an expiry-set is called only by a request that saw
\* the count 1, a request sees 1 only when the key was not there, a request
\* that finds the key goes to its TTL read with no expiry-set, at most one
\* request per life of the key is about to set its expiry, and but for
\* that call the time a key has to live only runs down.
C7_ExpiryByCreatorOnly ==
    [][ /\ call'.op = "expire"
           => \E r \in BagToSet(inflight) :
                 r.pc = "expire" /\ r.current = 1 /\ ExpireOf(r)
        /\ \A k \in Keys :
              /\ (IncrOf(k) /\ call'.ok /\ count[k] >= 1)
                 => inflight' = Put(inflight, Suspended("ttl", k, count[k] + 1))
              /\ (IncrOf(k) /\ call'.ok /\ count[k] = 0)
                 => inflight' = Put(inflight, Suspended("expire", k, 1))
              /\ expiry'[k] > expiry[k]
                 => call'.op = "expire" /\ call'.key = k
              /\ Arming(k) # {}
                 => /\ \A r \in Arming(k) : CopiesIn(r, inflight) = 1
                    /\ Cardinality(Arming(k)) = 1
                    /\ count[k] >= 1 /\ expiry[k] = -1
      ]_vars

\* a later request of the window has read a TTL that has run down since
\* the first request set it
C7_Witness ==
    /\ call.op = "ttl" /\ call.ok
    /\ resp.current >= 2
    /\ resp.ttl # None
    /\ resp.ttl[1] >= 0 /\ resp.ttl[1] < time_window

\* the request carries Authorization: Bearer <token>
HasBearer(request) ==
    /\ Len(request.auth) >= 7
    /\ SubSeq(request.auth, 1, 7) = <<"B", "e", "a", "r", "e", "r", " ">>

\* the counter of the bearer of the request: "rl:user:" and the token
BearerCounter(request) ==
    <<"r", "l", ":", "u", "s", "e", "r", ":">>
        \o SubSeq(request.auth, 8, Len(request.auth))

\* C8.  A request with both Authorization: Bearer <token> and
\* X-Forwarded-For that reaches the store increments the counter of
\* "user:" + token and no other counter, whatever X-Forwarded-For and the
\* peer address are.
C8_BearerIdentifier ==
    [][ ( /\ inreq' # NoRequest
          /\ HasBearer(inreq') /\ inreq'.xff # Absent
          /\ ~HasExemptPrefix(inreq'.path)
          /\ _redis_from_request # "None" )
        => /\ call'.op = "incr"
           /\ call'.key = BearerCounter(inreq')
           /\ \A k \in Keys \ {BearerCounter(inreq')} : count'[k] = count[k]
           /\ call'.ok => count'[call'.key] = count[call'.key] + 1
      ]_vars

\* a bearer's request with a forwarded address and another peer has been
\* counted under the token while the counter of that address is absent
C8_Witness ==
    /\ inreq # NoRequest
    /\ HasBearer(inreq) /\ inreq.xff = <<XffAB>> /\ inreq.peer = PeerC
    /\ call.op = "incr" /\ call.ok
    /\ call.key = <<"r", "l", ":", "u", "s", "e", "r", ":", "t">>
    /\ count[call.key] >= 1
    /\ count[<<"r", "l", ":", "a">>] = 0

\* the answer is the 429 of the middleware: downstream not called, the body
\* with the code, the limit, the window and a reset time that is yet to
\* come, and the three headers with the limit and nothing remaining
IsShortCircuit(response) ==
    /\ Is429(response)
    /\ response.downstream = NoDownstream
    /\ response.body.status = "error"
    /\ response.body.error.code = "RATE_LIMIT_EXCEEDED"
    /\ response.body.error.details
          = <<"A", "l", "l", "o", "w", "e", "d", " ">> \o Str(RateLimit)
            \o <<" ", "p", "e", "r", " ">> \o Str(TimeWindow)
            \o <<" ", "s", "e", "c", "o", "n", "d", "s">>
    /\ response.body.error.reset_at \in Nat
    /\ response.body.error.reset_at > response.now
    /\ Carries(response, HLimit, Str(RateLimit))
    /\ Carries(response, HRemaining, <<"0">>)
    /\ HasHeader(response.headers, HReset)

\* C9 as stated.  A request whose increment returned a count over the limit
\* ends in the short-circuit 429.
C9_Original ==
    [][ \A r \in BagToSet(inflight) :
          (r.current > rate_limit /\ TtlOf(r)) => IsShortCircuit(resp')
      ]_vars

\* C9 as amended.  A request whose increment returned a count over the
\* limit and whose TTL read is answered ends in the short-circuit 429:
\* downstream is not called, the status is 429, the body has the code
\* RATE_LIMIT_EXCEEDED with the limit, the window and reset_at, and the
\* headers X-RateLimit-Limit = limit, X-RateLimit-Remaining = 0 and
\* X-RateLimit-Reset are there.
C9_ShortCircuit ==
    [][ \A r \in BagToSet(inflight) :
          (r.current > rate_limit /\ TtlOf(r) /\ call'.ok)
          => /\ IsShortCircuit(resp')
             /\ resp'.key = r.key /\ resp'.current = r.current
      ]_vars

\* the first request over the limit has been answered by the middleware
\* itself, with nothing remaining
C9_Witness ==
    /\ call.op = "ttl" /\ call.ok
    /\ resp.via = "rejected"
    /\ resp.current = rate_limit + 1
    /\ IsShortCircuit(resp)

\* the names of the three headers of the limiter
RateLimitHeaders == {HLimit, HRemaining, HReset}

\* C10.  A request that passed the limit test is answered with the
\* downstream response: status and body as downstream returned them, every
\* header downstream set with the value downstream gave it, and
\* X-RateLimit-Limit, X-RateLimit-Remaining = max(0, limit - current) and
\* X-RateLimit-Reset added where downstream has not set them, and nothing
\* else.
C10_SetDefaultOnly ==
    [][ \A r \in BagToSet(inflight) :
          (r.current <= rate_limit /\ TtlOf(r) /\ call'.ok)
          => /\ IsForwarded(resp')
             /\ resp'.downstream.headers \subseteq resp'.headers
             /\ \A n \in RateLimitHeaders : HasHeader(resp'.headers, n)
             /\ \A h \in resp'.headers \ resp'.downstream.headers :
                   /\ h[1] \in RateLimitHeaders
                   /\ ~HasHeader(resp'.downstream.headers, h[1])
                   /\ h[1] = HLimit => h[2] = Str(RateLimit)
                   /\ h[1] = HRemaining
                      => h[2] = Str(IF RateLimit - r.current > 0
                                    THEN RateLimit - r.current ELSE 0)
             /\ \A h1, h2 \in resp'.headers : h1[1] = h2[1] => h1 = h2
      ]_vars

\* downstream had set X-RateLimit-Remaining and X-RateLimit-Reset itself:
\* the admitted response keeps its values and has the limit added
C10_Witness ==
    /\ call.op = "ttl" /\ call.ok
    /\ resp.via = "admitted"
    /\ resp.status = 404
    /\ HasHeader(resp.downstream.headers, HRemaining)
    /\ Carries(resp, HRemaining, <<"5">>)
    /\ Carries(resp, HReset, <<"9">>)
    /\ ~HasHeader(resp.downstream.headers, HLimit)
    /\ Carries(resp, HLimit, Str(RateLimit))

\* C11.  With no store client, none injected and none on the application
\* state, a request that is not exempt is forwarded at once: no store call
\* is made, no counter or expiry changes, nothing is left suspended, and
\* the answer is the downstream response with no header added, never a
\* 429, however many requests came before.
C11_NoClientNoEnforcement ==
    [][ ( /\ inreq' # NoRequest
          /\ ~HasExemptPrefix(inreq'.path)
          /\ mw_redis = "None" /\ app_state_redis = "None" )
        => /\ call' = NoCall
           /\ count' = count /\ expiry' = expiry /\ inflight' = inflight
           /\ IsUnmodified(resp')
           /\ ~Is429(resp')
      ]_vars

\* a request for the tasks went through with no client anywhere, with the
\* response of downstream as it was and every counter still absent
C11_Witness ==
    /\ inreq # NoRequest
    /\ inreq.path = PathTareas
    /\ mw_redis = "None" /\ app_state_redis = "None"
    /\ call = NoCall
    /\ IsUnmodified(resp)
    /\ \A k \in Keys : count[k] = 0

\* the request of count current is decided by the limit, with the reset
\* time taken as the window from now
DecidedWithWindow(response, current) ==
    /\ current > RateLimit
       => /\ Is429(response)
          /\ response.body.error.reset_at = response.now + TimeWindow
          /\ Carries(response, HReset, Str(TimeWindow))
    /\ current <= RateLimit
       => /\ IsForwarded(response)
          /\ \A n \in RateLimitHeaders : HasHeader(response.headers, n)
          /\ ~HasHeader(response.downstream.headers, HReset)
             => Carries(response, HReset, Str(TimeWindow))

\* C12 as stated.  After an answered increment, a TTL read that raises or
\* returns no value leaves the request decided by the limit, 429 over it
\* and admitted with the headers otherwise, the reset time being the
\* window from now.
C12_Original ==
    [][ \A r \in BagToSet(inflight) :
          (TtlOf(r) /\ (~call'.ok \/ resp'.ttl = None))
          => DecidedWithWindow(resp', r.current)
      ]_vars

\* C12 as amended.  After an answered increment, a TTL read that is
\* answered with no value leaves the request decided by the limit, 429
\* over it and admitted with the headers otherwise, the reset time being
\* the window from now; a TTL read that raises has the request forwarded
\* with the downstream response as it is, whatever the count.
C12_TtlWithoutValue ==
    [][ \A r \in BagToSet(inflight) :
          /\ (TtlOf(r) /\ call'.ok /\ resp'.ttl = None)
             => DecidedWithWindow(resp', r.current)
          /\ (TtlOf(r) /\ ~call'.ok) => IsUnmodified(resp')
      ]_vars

\* a request over the limit whose TTL read returned no value got its 429
\* with the reset a window away
C12_Witness ==
    /\ call.op = "ttl" /\ call.ok
    /\ resp.ttl = None
    /\ resp.current > RateLimit
    /\ Is429(resp)
    /\ resp.body.error.reset_at = resp.now + TimeWindow
    /\ Carries(resp, HReset, Str(TimeWindow))

\* C13.  In every 429 of the middleware, reset_at is the current time plus
\* the TTL the read returned when that is over 0, and the current time
\* plus the window when the read returned no value, 0 or a negative value;
\* so reset_at is later than the current time.
C13_ResetAt ==
    (resp # NoResp /\ Is429(resp))
    => /\ resp.body.error.reset_at
            = resp.now + (IF resp.ttl # None /\ resp.ttl[1] > 0
                          THEN resp.ttl[1] ELSE TimeWindow)
       /\ resp.body.error.reset_at > resp.now

\* a 429 given at time 1 with part of the window gone: reset_at is the time
\* plus what is left of it
C13_Witness ==
    /\ Is429(resp)
    /\ resp.now = 1
    /\ resp.ttl # None
    /\ resp.ttl[1] > 0 /\ resp.ttl[1] < TimeWindow
    /\ resp.body.error.reset_at = 1 + resp.ttl[1]

\* text e is text o with whitespace before and after it, o having none at
\* either end
IsTrimOf(o, e) ==
    /\ Len(o) <= Len(e)
    /\ \E a \in 0..(Len(e) - Len(o)) :
          /\ o = SubSeq(e, a + 1, a + Len(o))
          /\ \A i \in 1..a : e[i] \in {" ", "\t", "\n", "\r"}
          /\ \A i \in (a + Len(o) + 1)..Len(e) : e[i] \in {" ", "\t", "\n", "\r"}
    /\ o # <<>> => /\ o[1] \notin {" ", "\t", "\n", "\r"}
                   /\ o[Len(o)] \notin {" ", "\t", "\n", "\r"}

\* text e is what comes before the first comma of text v, or v without one
IsFirstEntryOf(e, v) ==
    /\ Len(e) <= Len(v)
    /\ e = SubSeq(v, 1, Len(e))
    /\ \A i \in 1..Len(e) : e[i] # ","
    /\ Len(e) < Len(v) => v[Len(e) + 1] = ","

\* the identifier is the first entry of the header value, trimmed
IsFirstForwarded(o, v) ==
    \E n \in 0..Len(v) :
        IsFirstEntryOf(SubSeq(v, 1, n), v) /\ IsTrimOf(o, SubSeq(v, 1, n))

\* the identifier of a request with no X-Forwarded-For to go by
IsPeerOrUnknown(o, request) ==
    o = IF request.peer # Absent THEN request.peer
        ELSE <<"u", "n", "k", "n", "o", "w", "n">>

\* _identifier has returned for a request without a Bearer token
ResolvedWithoutBearer ==
    /\ probe.fn = "_identifier"
    /\ probe.returned
    /\ ~HasBearer(probe.request)

\* C14 as stated.  For a request without a Bearer token, the identifier is
\* the trimmed first entry of X-Forwarded-For whenever the header is there,
\* whatever its value; else the peer address when known; else "unknown".
C14_Original ==
    ResolvedWithoutBearer
    => IF probe.request.xff # Absent
       THEN IsFirstForwarded(probe.result, probe.request.xff[1])
       ELSE IsPeerOrUnknown(probe.result, probe.request)

\* C14 as amended.  For a request without a Bearer token, the identifier is
\* the trimmed first entry of X-Forwarded-For whenever the header is there
\* with a value that is not empty; else, the header absent or empty, the
\* peer address when known; else "unknown".  Every request gets one.
C14_IdentifierOrder ==
    /\ ResolvedWithoutBearer
       => IF probe.request.xff # Absent /\ probe.request.xff[1] # <<>>
          THEN IsFirstForwarded(probe.result, probe.request.xff[1])
          ELSE IsPeerOrUnknown(probe.result, probe.request)
    /\ (probe.fn = "_identifier" /\ probe.returned) => probe.result \in Seq(STRING)

\* the request had another scheme of Authorization, a forwarding header of
\* two entries with blanks around the first, and a peer: the first won
C14_Witness ==
    /\ ResolvedWithoutBearer
    /\ probe.request.auth = BasicT
    /\ probe.request.xff = <<XffAB>>
    /\ probe.request.peer = PeerC
    /\ probe.result = <<"a">>

\* text p is found in text s
Names(s, p) ==
    \E i \in 0..(Len(s) - Len(p)) : SubSeq(s, i + 1, i + Len(p)) = p

\* the argument was given, with a text that is not empty
Given(x) == x # <<>> /\ x[1] # <<>>

\* C15.  A NotFoundError is answered 404 and a PermissionDeniedError 403,
\* with the body {"detail": message} and nothing else in it: the message is
\* the one given; with none given, that of a NotFoundError is
\* "<resource> no encontrada (id=<identifier>)" with an identifier and
\* "<resource> no encontrada" without, and that of a PermissionDeniedError
\* names the action and the resource whenever an action is given.
C15_DomainErrorTranslation ==
    (probe.fn = "handler" /\ probe.returned)
    => LET given == probe.given
           detail == probe.response.content.detail
       IN  /\ probe.response.status_code
                = IF probe.type = "NotFoundError" THEN 404 ELSE 403
           /\ DOMAIN probe.response.content = {"detail"}
           /\ given.message # <<>> => detail = given.message[1]
           /\ (given.message = <<>> /\ probe.type = "NotFoundError")
              => detail = IF Given(given.identifier)
                          THEN given.resource \o <<" ", "n", "o", " ", "e", "n", "c", "o", "n", "t", "r", "a", "d", "a", " ", "(", "i", "d", "=">>
                               \o given.identifier[1] \o <<")">>
                          ELSE given.resource \o <<" ", "n", "o", " ", "e", "n", "c", "o", "n", "t", "r", "a", "d", "a">>
           /\ ( /\ given.message = <<>>
                /\ probe.type = "PermissionDeniedError"
                /\ Given(given.action) )
              => /\ Names(detail, given.action[1])
                 /\ Names(detail, given.resource)

\* a PermissionDeniedError made with an action, a resource and an
\* identifier and no message has been answered 403 with its default message
C15_Witness ==
    /\ probe.fn = "handler" /\ probe.returned
    /\ probe.type = "PermissionDeniedError"
    /\ probe.given.message = <<>>
    /\ probe.given.action = << <<"v", "e", "r">> >>
    /\ probe.given.resource = <<"T", "a", "r", "e", "a">>
    /\ probe.given.identifier = << <<"7">> >>
    /\ probe.response.status_code = 403
    /\ probe.response.content.detail = <<"N", "o", " ", "a", "u", "t", "o", "r", "i", "z", "a", "d", "o", " ", "p", "a", "r", "a", " ", "v", "e", "r", " ", "T", "a", "r", "e", "a", " ", "(", "i", "d", "=", "7", ")">>

\* C16 as stated.  A failure raised while a request is handled that is no
\* NotFoundError, PermissionDeniedError or validation error is answered 500
\* with the body {"detail": "Internal Server Error"}, the text of the
\* exception being nowhere in the body, on every route.
C16_Original ==
    ( /\ probe.fn = "route" /\ probe.at = "responded"
      /\ probe.raised.type = "Exception" )
    => /\ probe.response.status_code = 500
       /\ probe.response.content = [detail |-> <<"I", "n", "t", "e", "r", "n", "a", "l", " ", "S", "e", "r", "v", "e", "r", " ", "E", "r", "r", "o", "r">>]
       /\ ~Names(probe.response.content.detail, probe.raised.message)

\* the update of a task failed in the database and the text of the
\* exception is the detail of the 500 the client got
C16_Witness ==
    /\ probe.fn = "route" /\ probe.at = "responded"
    /\ probe.route = "update_tarea"
    /\ probe.raised.type = "Exception"
    /\ probe.raised.message = <<"d", "a", "t", "a", "b", "a", "s", "e", " ", "i", "s", " ", "l", "o", "c", "k", "e", "d">>
    /\ probe.response = JSONDetail(500, <<"d", "a", "t", "a", "b", "a", "s", "e", " ", "i", "s", " ", "l", "o", "c", "k", "e", "d">>)

\* C17 as stated.  A domain error raised while a request is handled reaches
\* the handler registered for it in the application as it was raised, and
\* is caught there and nowhere else.
C17_Original ==
    ( /\ probe.fn = "route" /\ probe.at = "responded"
      /\ probe.raised.type \in {"NotFoundError", "PermissionDeniedError"} )
    => /\ probe.exc = probe.raised
       /\ probe.caught_by
            = << IF probe.raised.type = "NotFoundError"
                 THEN "not_found_exception_handler"
                 ELSE "permission_denied_exception_handler" >>

\* a NotFoundError of the repository was caught by the route and left it
\* as an HTTPException: the handler registered for NotFoundError never saw it
C17_Witness ==
    /\ probe.fn = "route" /\ probe.at = "responded"
    /\ probe.route = "delete_tarea"
    /\ probe.raised.type = "NotFoundError"
    /\ probe.exc.type = "HTTPException"
    /\ probe.caught_by = <<"delete_tarea", "http_exception_handler">>
    /\ probe.response = JSONDetail(404, <<"T", "a", "r", "e", "a", " ", "n", "o", " ", "e", "n", "c", "o", "n", "t", "r", "a", "d", "a", " ", "(", "i", "d", "=", "7", ")">>)

\* the table has a row of that id that is soft-deleted
IsSoftDeleted(table, id) ==
    \E row \in table : row.tarea_id = id /\ row.is_deleted

\* C18.  From a soft_delete that succeeded until a restore that succeeds,
\* the task is as if absent: get with default arguments returns nothing,
\* update and soft_delete raise NotFoundError and leave the table as it
\* is, and nothing but a restore of that id that returns makes the task
\* active again.
C18_SoftDeletedIsAbsent ==
    [][ /\ (result'.op = "soft_delete" /\ result'.raised = NoException)
           => IsSoftDeleted(tareas', result'.tarea_id)
        /\ \A id \in RepoIds :
              IsSoftDeleted(tareas, id)
              => /\ (result'.op = "get" /\ result'.tarea_id = id
                                       /\ ~result'.include_deleted)
                    => /\ result'.returned = <<>>
                       /\ result'.raised = NoException
                       /\ tareas' = tareas
                 /\ (result'.op \in {"update", "soft_delete"}
                                       /\ result'.tarea_id = id)
                    => /\ result'.raised.type = "NotFoundError"
                       /\ result'.raised.status_code = 404
                       /\ result'.returned = <<>>
                       /\ tareas' = tareas
                 /\ ~IsSoftDeleted(tareas', id)
                    => /\ result'.op = "restore" /\ result'.tarea_id = id
                       /\ result'.raised = NoException
      ]_vars

\* the owner's update of a task soft-deleted some time before was refused
\* with NotFoundError, the row still as the soft_delete left it
C18_Witness ==
    /\ result.op = "update"
    /\ result.raised.type = "NotFoundError"
    /\ result.requester # <<>>
    /\ \E row \in tareas :
          /\ row.tarea_id = result.tarea_id
          /\ row.is_deleted
          /\ row.user_id = result.requester[1]
          /\ row.updated_at < clock

\* the table has a row of that id, soft-deleted or not
Exists(table, id) == \E row \in table : row.tarea_id = id

\* the requester is given and is not the owner of the row of that id
NotOwner(table, id, requester) ==
    /\ requester # <<>>
    /\ \E row \in table : row.tarea_id = id /\ row.user_id # requester[1]

\* C19 as stated.  For a task that exists and a requester that is given
\* and is not its owner, update and soft_delete (of a task not
\* soft-deleted), and restore, raise PermissionDeniedError and leave the
\* table as it is; for an id with no row the three raise NotFoundError.
C19_Original ==
    [][ \A id \in RepoIds :
          (result'.op \in {"update", "soft_delete", "restore"}
              /\ result'.tarea_id = id)
          => /\ ~Exists(tareas, id)
                => /\ result'.raised.type = "NotFoundError"
                   /\ tareas' = tareas
             /\ ( /\ NotOwner(tareas, id, result'.requester)
                  /\ result'.op = "restore" \/ ~IsSoftDeleted(tareas, id) )
                => /\ result'.raised.type = "PermissionDeniedError"
                   /\ tareas' = tareas
      ]_vars

\* a user who does not own an active task asked for its restore and got
\* NotFoundError for a task that is there
C19_Witness ==
    /\ result.op = "restore"
    /\ result.raised.type = "NotFoundError"
    /\ NotOwner(tareas, result.tarea_id, result.requester)
    /\ Exists(tareas, result.tarea_id)
    /\ ~IsSoftDeleted(tareas, result.tarea_id)

\* the text is the word "string" written in whatever case
IsWordString(t) ==
    /\ Len(t) = 6
    /\ t[1] \in {"s", "S"} /\ t[2] \in {"t", "T"} /\ t[3] \in {"r", "R"}
    /\ t[4] \in {"i", "I"} /\ t[5] \in {"n", "N"} /\ t[6] \in {"g", "G"}

\* the title is no value, empty, blank, or the word "string" between blanks
IsInvalidTitulo(v) ==
    \/ v = <<>>
    \/ \A i \in 1..Len(v[1]) : v[1][i] \in {" ", "\t", "\n", "\r"}
    \/ \E t \in StringCasings : IsWordString(t) /\ IsTrimOf(t, v[1])

\* C20 as stated.  TareaCreate is rejected with the message
\* "DEBE INGRESAR UN TITULO VALIDO" for a title that is no value, empty,
\* blank or the word "string" in any case, and accepted for every other
\* title of 1 to 255 characters.
C20_Original ==
    (probe.fn = "TareaCreate" /\ probe.returned)
    => /\ IsInvalidTitulo(probe.titulo)
          => "DEBE INGRESAR UN TITULO VALIDO" \in probe.errors
       /\ (~IsInvalidTitulo(probe.titulo) /\ Len(probe.titulo[1]) <= 255)
          => probe.errors = {}

\* the title "STRING" has been rejected, with the message as the validator
\* writes it
C20_Witness ==
    /\ probe.fn = "TareaCreate" /\ probe.returned
    /\ probe.titulo = << <<"S", "T", "R", "I", "N", "G">> >>
    /\ probe.errors = {"Debe ingresar un titulo valido"}

\* C21 as stated.  A TareaUpdate built with titulo set to None is rejected
\* with the message "DEBE INGRESAR UN TITULO VALIDO", and the fields that
\* TaskRepository.update reads of an update never hold a titulo of None.
C21_Original ==
    (probe.fn = "TareaUpdate" /\ probe.returned)
    => /\ (probe.is_set /\ probe.titulo = None)
          => "DEBE INGRESAR UN TITULO VALIDO" \in probe.errors
       /\ \A d \in probe.data : d[1] = "titulo" => d[2] # None

\* TareaUpdate(titulo=None) has been built without an error, and the fields
\* update reads of it hold the titulo None
C21_Witness ==
    /\ probe.fn = "TareaUpdate" /\ probe.returned
    /\ probe.is_set /\ probe.titulo = None
    /\ probe.errors = {}
    /\ probe.data = { <<"titulo", None>> }

\* C22.  With a store whose calls are all answered and whose increment is
\* atomic, the requests of one key are numbered 1, 2, 3, ... in the order of
\* their increments for as long as the key lives, whatever calls of the
\* same or another key are suspended at their expiry-set or TTL read: an
\* increment hands out the count before it plus one, the count of a key
\* goes down only when the store expires the key, neither the expiry-set
\* nor the TTL read changes a count, and a request is forwarded exactly when
\* its number is at most rate_limit.  So at most rate_limit requests of one
\* life of the key are admitted, and the expiry-set of the first request
\* coming before or after the increments of the others changes no decision.
C22_AtMostLimitPerLifetime ==
    [][ /\ \A k \in Keys :
              IncrOf(k)
              => /\ count'[k] = count[k] + 1
                 /\ \E pc \in {"expire", "ttl"} :
                       inflight' = Put(inflight, Suspended(pc, k, count'[k]))
        /\ DownOnlyByExpiry
        /\ call'.op \in {"expire", "ttl"} => count' = count
        /\ \A r \in BagToSet(inflight) :
              /\ ExpireOf(r) /\ r.pc = "expire"
                 => /\ resp' = NoResp
                    /\ expiry'[r.key] = time_window
              /\ TtlOf(r) /\ r.pc = "ttl"
                 => /\ resp'.current = r.current
                    /\ resp'.forwarded <=> r.current <= rate_limit
                    /\ Is429(resp') <=> r.current > rate_limit
      ]_vars

\* three requests of one key were counted before the first of them had set
\* the expiry: the third is answered 429 while the first is still on its way
\* to its expiry-set
C22_Witness ==
    /\ Is429(resp) /\ resp.current = rate_limit + 1
    /\ count[resp.key] = rate_limit + 1 /\ expiry[resp.key] < 0
    /\ \E r \in BagToSet(inflight) :
          r.key = resp.key /\ r.pc = "expire" /\ r.current = 1

\* the key lives with no time to live and no call is on its way to set one:
\* the expiry-set of the request that made the key did not take effect
LeftWithoutTtl(k) ==
    /\ count[k] >= 1 /\ expiry[k] < 0
    /\ \A r \in BagToSet(inflight) : ~(r.key = k /\ r.pc = "expire")

\* C23 as stated.  Once the expiry-set of the request that made a key did
\* not take effect, no later step sets a time to live on the key or takes
\* the key away, and, the count being over the limit, every further request
\* of the key is answered 429 and not forwarded, at its increment and at its
\* TTL read.
C23_Original ==
    [][ \A k \in Keys :
           LeftWithoutTtl(k)
           => /\ LeftWithoutTtl(k)'
              /\ count'[k] >= count[k]
              /\ call'.key = k => call'.op # "expire"
              /\ (count[k] > rate_limit /\ IncrOf(k)) => ~resp'.forwarded
              /\ \A r \in BagToSet(inflight) :
                    (r.key = k /\ r.current > rate_limit + 1 /\ TtlOf(r))
                    => Is429(resp')
      ]_vars

\* C23 as amended.  Once the expiry-set of the request that made a key did
\* not take effect, no later step sets a time to live on the key or takes
\* the key away, and, the count being over the limit, every further request
\* of the key whose increment and TTL read are answered by the store is
\* answered 429 and not forwarded.
C23_RejectedForever ==
    [][ \A k \in Keys :
           LeftWithoutTtl(k)
           => /\ LeftWithoutTtl(k)'
              /\ count'[k] >= count[k]
              /\ call'.key = k => call'.op # "expire"
              /\ (count[k] > rate_limit /\ IncrOf(k) /\ call'.ok)
                 => /\ resp' = NoResp
                    /\ inflight' = Put(inflight, Suspended("ttl", k, count[k] + 1))
              /\ \A r \in BagToSet(inflight) :
                    (r.key = k /\ r.current > rate_limit + 1 /\ TtlOf(r) /\ call'.ok)
                    => Is429(resp')
      ]_vars

\* a request that came after the count had passed the limit is answered 429
\* with the TTL read telling that the key has no time to live
C23_Witness ==
    /\ Is429(resp) /\ resp.current > rate_limit + 1
    /\ resp.ttl = <<-1>>
    /\ LeftWithoutTtl(resp.key)

\* C24.  An expiry-set that raises, that of the request which made the key,
\* ends nothing: the step returns no response and lets nothing through, and
\* the request goes on to its TTL read with the count 1 it was given; that
\* TTL read being answered, the request is admitted by the limit test: it is
\* forwarded and its response carries the three rate-limit headers, with the
\* limit and the remaining rate_limit - 1 where downstream set none.
C24_ExpireFailureNonFatal ==
    [][ \A r \in BagToSet(inflight) :
           /\ (r.pc = "expire" /\ call'.op = "expire" /\ call'.key = r.key
                 /\ ~call'.ok)
              => /\ r.current = 1
                 /\ resp' = NoResp
                 /\ inflight' = Put(Take(r), Suspended("ttl", r.key, 1))
                 /\ count' = count
           /\ (r.pc = "ttl" /\ r.current = 1 /\ TtlOf(r) /\ call'.ok)
              => /\ resp'.via = "admitted"
                 /\ IsForwarded(resp')
                 /\ \A h \in {HLimit, HRemaining, HReset} :
                       HasHeader(resp'.headers, h)
                 /\ ~HasHeader(resp'.downstream.headers, HLimit)
                    => Carries(resp', HLimit, Str(rate_limit))
                 /\ ~HasHeader(resp'.downstream.headers, HRemaining)
                    => Carries(resp', HRemaining, Str(rate_limit - 1))
      ]_vars

\* the request that made the key is admitted with the headers, its TTL read
\* having found the key without a time to live: its expiry-set had failed
C24_Witness ==
    /\ resp.via = "admitted" /\ resp.current = 1
    /\ resp.ttl = <<-1>>
    /\ call.op = "ttl" /\ call.ok
    /\ LeftWithoutTtl(resp.key)
    /\ resp.downstream.headers = {}
    /\ Carries(resp, HRemaining, Str(rate_limit - 1))

\* C25.  Whatever the store does, a request that dispatch takes in is
\* either answered in the same step or suspended at a store call, a call
\* that leaves a store call goes on to the next or returns its response,
\* and a response is returned once, by the step that ends the call.  The
\* response is either the middleware's 429, with no call of downstream, or
\* the response of the one call of downstream that dispatch made; a
\* request is answered without a call of downstream only by the 429.
C25_ForwardedOnceOrRejected ==
    [][ /\ resp' # NoResp
           => /\ resp'.forwarded
                 => /\ resp'.downstream \in DownstreamResponses
                    /\ resp'.status = resp'.downstream.status
                    /\ resp'.body = resp'.downstream.body
                    /\ resp'.via \in {"exempt", "no_redis", "fail_open", "admitted"}
              /\ ~resp'.forwarded
                 => /\ resp'.downstream = NoDownstream
                    /\ resp'.via = "rejected" /\ resp'.status = 429
                    /\ call'.op = "ttl" /\ call'.ok
                    /\ resp'.current > rate_limit
              /\ (inreq' # NoRequest /\ inflight' = inflight)
                 \/ (inreq' = NoRequest /\ \E r \in BagToSet(inflight) : TtlOf(r))
        /\ inreq' # NoRequest
           => \/ resp' # NoResp /\ inflight' = inflight
              \/ /\ resp' = NoResp /\ call'.op = "incr" /\ call'.ok
                 /\ \E pc \in {"expire", "ttl"} :
                       inflight' = Put(inflight, Suspended(pc, call'.key, count'[call'.key]))
        /\ \A r \in BagToSet(inflight) :
              CopiesIn(r, inflight') < CopiesIn(r, inflight)
              => \/ r.pc = "expire" /\ ExpireOf(r) /\ resp' = NoResp
                 \/ r.pc = "ttl" /\ TtlOf(r) /\ resp' # NoResp
      ]_vars

\* a request whose expiry-set failed and whose TTL read raised has been
\* forwarded, by the one call of downstream of the handler of store errors
C25_Witness ==
    /\ resp.via = "fail_open" /\ resp.forwarded
    /\ call.op = "ttl" /\ ~call.ok
    /\ resp.current = 1 /\ LeftWithoutTtl(resp.key)
    /\ resp.downstream \in DownstreamResponses

\* C26 as stated.  The identifier of a request without a Bearer token,
\* taken from X-Forwarded-For or from the peer address, is the identifier
\* of no request with a Bearer token, and so is its key: it does not start
\* with "user:".
C26_Original ==
    (probe.fn = "_identifier" /\ probe.returned /\ ~HasBearer(probe.request))
    => /\ ~StartsWith(probe.result, <<"u", "s", "e", "r", ":">>)
       /\ \A q \in IdentifierInputs :
             HasBearer(q) => _key(_identifier(q)) # _key(probe.result)

\* a request with no Authorization header and X-Forwarded-For "user:t" is
\* given the identifier of the caller with the Bearer token "t"
C26_Witness ==
    /\ probe.fn = "_identifier" /\ probe.returned
    /\ probe.request.auth = Absent /\ probe.request.xff = <<XffUserT>>
    /\ probe.result
         = _identifier([path |-> PathTareas, auth |-> BearerT,
                        xff |-> Absent, peer |-> PeerA])

\* the middleware has put X-RateLimit-Reset on the response itself
SetsReset(response) ==
    \/ response.via = "rejected"
    \/ /\ response.via = "admitted"
       /\ ~HasHeader(response.downstream.headers, HReset)

\* C27 as stated.  The X-RateLimit-Reset the middleware puts on a response,
\* admitted or 429, is the decimal form of a number of seconds from 0 to
\* time_window, also when the TTL read finds the key with no time to live
\* yet or does not find the key any more.
C27_Original ==
    SetsReset(resp)
    => \E n \in 0..time_window : Carries(resp, HReset, Str(n))

\* the second request of a key is admitted before the first has set the
\* expiry: its TTL read is answered -1 and its X-RateLimit-Reset is "-1"
C27_Witness ==
    /\ resp.via = "admitted" /\ SetsReset(resp)
    /\ resp.current = 2 /\ resp.ttl = <<-1>>
    /\ Carries(resp, HReset, <<"-", "1">>)
    /\ \E r \in BagToSet(inflight) :
          r.key = resp.key /\ r.pc = "expire"

\* the calls suspended for key k are the same before and after the step
SameSuspended(k) ==
    \A r \in BagToSet(inflight) \cup BagToSet(inflight') :
        r.key = k => CopiesIn(r, inflight') = CopiesIn(r, inflight)

\* C28.  Every store call of a request is made on the key of the request's
\* own identifier, at its increment, its expiry-set and its TTL read, and a
\* step of a request leaves every other key as it was: its count, its time
\* to live, and the calls suspended for it with the counts they were given,
\* by which they and the next request of that key are decided.
C28_KeysIndependent ==
    [][ /\ (inreq' # NoRequest /\ call' # NoCall)
           => /\ call'.op = "incr"
              /\ call'.key = key_prefix \o <<":">> \o _identifier(inreq')
        /\ \A r \in BagToSet(inflight) :
              CopiesIn(r, inflight') < CopiesIn(r, inflight)
              => call'.key = r.key /\ resp'.key \in {<<>>, r.key}
        /\ call' # NoCall
           => \A k \in Keys \ {call'.key} :
                 /\ count'[k] = count[k]
                 /\ expiry'[k] = expiry[k]
                 /\ SameSuspended(k)
        /\ (call' = NoCall /\ inreq' # NoRequest)
           => count' = count /\ expiry' = expiry /\ inflight' = inflight
      ]_vars

\* the first request of one identifier is admitted with all but one of its
\* quota remaining while the key of another identifier is over the limit
\* and has no time to live
C28_Witness ==
    /\ resp.via = "admitted" /\ resp.current = 1
    /\ count[resp.key] = 1
    /\ resp.downstream.headers = {}
    /\ Carries(resp, HRemaining, Str(rate_limit - 1))
    /\ \E k \in Keys \ {resp.key} : count[k] > rate_limit /\ expiry[k] < 0

\* the prefixes the middleware is configured with: the list it was given,
\* and the four defaults when it was given none
ConfiguredPrefixes(arg) ==
    IF arg = None THEN default_exempt_paths ELSE arg[1]

\* C29 as stated.  A request is let through as exempt exactly when its path
\* starts with one of the prefixes the middleware was configured with, the
\* defaults standing in only when no list was given: with the empty list
\* given, no request is exempt.
C29_Original ==
    (probe.fn = "exempt" /\ probe.returned)
    => /\ probe.exempt
          <=> \E i \in 1..Len(ConfiguredPrefixes(probe.exempt_paths)) :
                 StartsWith(probe.path, ConfiguredPrefixes(probe.exempt_paths)[i])
       /\ probe.exempt_paths = << <<>> >> => ~probe.exempt

\* the middleware built with exempt_paths=[] has let "/docs/x" through as
\* exempt, by the default prefixes
C29_Witness ==
    /\ probe.fn = "exempt" /\ probe.returned
    /\ probe.exempt_paths = << <<>> >>
    /\ probe.path = PathDocsX
    /\ probe.self_exempt_paths = default_exempt_paths
    /\ probe.exempt

\* the requester is not given, or is the owner of the row of that id
OwnerOrNone(table, id, requester) ==
    \/ requester = <<>>
    \/ \E row \in table : row.tarea_id = id /\ row.user_id = requester[1]

\* the row of that id in the table
RowOf(table, id) == CHOOSE row \in table : row.tarea_id = id

\* restore of a soft-deleted task by its owner makes the task active again,
\* with its titulo, descripcion, estado and owner as they were
RestoreUndoesSoftDelete(id) ==
    ( /\ result'.op = "restore" /\ result'.tarea_id = id
      /\ IsSoftDeleted(tareas, id)
      /\ OwnerOrNone(tareas, id, result'.requester) )
    => /\ result'.raised = NoException
       /\ result'.returned = << RowOf(tareas', id) >>
       /\ RowOf(tareas', id).is_deleted = FALSE
       /\ \A f \in {"titulo", "descripcion", "estado", "user_id", "created_at"} :
             RowOf(tareas', id)[f] = RowOf(tareas, id)[f]
       /\ { row \in tareas' : row.tarea_id # id }
            = { row \in tareas : row.tarea_id # id }

\* C30 as stated.  restore of a soft-deleted task by its owner makes the
\* task active again, visible to get, with its titulo, descripcion, estado
\* and owner as they were; and restore of a task that is active returns
\* that task, raises nothing and leaves the table as it is.
C30_Original ==
    [][ \A id \in RepoIds :
           /\ RestoreUndoesSoftDelete(id)
           /\ ( /\ result'.op = "restore" /\ result'.tarea_id = id
                /\ Exists(tareas, id) /\ ~IsSoftDeleted(tareas, id)
                /\ OwnerOrNone(tareas, id, result'.requester) )
              => /\ result'.raised = NoException
                 /\ result'.returned = << RowOf(tareas, id) >>
                 /\ tareas' = tareas
      ]_vars

\* the owner of an active task asked for its restore and got NotFoundError
C30_Witness ==
    /\ result.op = "restore"
    /\ result.raised.type = "NotFoundError"
    /\ result.requester # <<>>
    /\ Exists(tareas, result.tarea_id)
    /\ ~IsSoftDeleted(tareas, result.tarea_id)
    /\ OwnerOrNone(tareas, result.tarea_id, result.requester)

\* the step takes in a request that is not exempt
TakesNotExempt == inreq' # NoRequest /\ ~HasExemptPrefix(inreq'.path)

\* C31.  The client of the middleware never changes.  With a client given
\* to create_app, that client is in app.state from the start and stays
\* there through every run of the startup hook, which makes no connection,
\* and every request that is not exempt goes to the store through it.
\* With none given, the first run of the hook makes the one connection of
\* the application and later runs make no other: before it, a request is
\* forwarded as it is with no store call; after it, app.state holds that
\* connection for good and every request that is not exempt goes to the
\* store through it.
C31_ClientFixedOnce ==
    [][ /\ mw_redis' = mw_redis /\ mw_redis = probe.redis_client
        /\ probe.redis_client = "client"
           => /\ app_state_redis = "client" /\ app_state_redis' = "client"
              /\ probe'.connections = 0
              /\ _redis_from_request = "client"
              /\ TakesNotExempt => call'.op = "incr"
        /\ probe.redis_client = "None"
           => /\ probe'.connections = (IF probe'.started >= 1 THEN 1 ELSE 0)
              /\ app_state_redis'
                   = (IF probe'.started >= 1 THEN Connection(1) ELSE "None")
              /\ _redis_from_request = app_state_redis
              /\ (TakesNotExempt /\ probe.started = 0)
                 => /\ resp'.via = "no_redis" /\ IsUnmodified(resp')
                    /\ call' = NoCall
                    /\ count' = count /\ expiry' = expiry
              /\ (TakesNotExempt /\ probe.started >= 1)
                 => /\ call'.op = "incr"
                    /\ _redis_from_request = Connection(1)
      ]_vars

\* with no client given, a request was forwarded before the first run of
\* the hook, and after the second run a request of the same caller is over
\* the limit on the connection the first run made
C31_Witness ==
    /\ probe.fn = "create_app" /\ probe.redis_client = "None"
    /\ probe.started = 2 /\ probe.connections = 1
    /\ mw_redis = "None" /\ app_state_redis = Connection(1)
    /\ Is429(resp)

\* C2 as stated.  While the key of its identifier lives, every request that
\* is not exempt raises the counter of that key by exactly 1, and a counter
\* goes down only by expiry.
C2_Original ==
    [][ /\ (TakesCounted /\ count[_key(_identifier(inreq'))] > 0)
           => count' = [count EXCEPT ![_key(_identifier(inreq'))] = @ + 1]
        /\ DownOnlyByExpiry
      ]_vars

\* C2 as amended.  Every request that is not exempt calls the increment of
\* its key; when the call is answered, admitted or rejected later, the
\* counter of that key is up by exactly 1, and when it raises by 0 or 1;
\* no other step raises a counter, and a counter goes down, to zero, only
\* by the store expiring the key.
C2_CountedOnce ==
    [][ /\ TakesCounted => IncrOf(_key(_identifier(inreq')))
        /\ (call'.op = "incr" /\ call'.ok)
           => count' = [count EXCEPT ![call'.key] = @ + 1]
        /\ (call'.op = "incr" /\ ~call'.ok)
           => count' \in {count, [count EXCEPT ![call'.key] = @ + 1]}
        /\ call'.op # "incr" => \A k \in Keys : count'[k] <= count[k]
        /\ DownOnlyByExpiry
      ]_vars

\* the increment of a request over the limit, which will be rejected,
\* has been counted
C2_Witness ==
    /\ call.op = "incr" /\ call.ok
    /\ count[call.key] > rate_limit + 1
    /\ \E r \in BagToSet(inflight) :
          r.key = call.key /\ r.current = count[call.key]

====
